---------------------------- MODULE Spec2Model ----------------------------
(***************************************************************************)
(* A model of ConwordsGenerator (src/unnamed/part_000): dictionary         *)
(* compilation, generate, iterate (the randomized placer and the           *)
(* selection step) and fillEmptySpaces.                                    *)
(*                                                                         *)
(* Conventions.  A JavaScript string is a sequence of one-character        *)
(* strings.  A JavaScript array is a sequence; JavaScript index i is       *)
(* position i + 1.  A grid cell [letter, vertical, horizontal] is a        *)
(* 3-tuple, so cell[k] of the source is cell[k + 1] here.                  *)
(***************************************************************************)
EXTENDS Integers, Sequences, FiniteSets, TLC

VARIABLES
  options,      \* this.options of the generator (with the compilation)
  ignored,      \* this.ignored
  seed,         \* this.seed
  random,       \* state of this.random, the generator seeded by generate
  mathRandom,   \* state of the process-wide Math.random
  matrices,     \* what the caller holds: the grid of generate, then populations
  solutions,    \* the batch handed to the last #selectSolutions, as left by it
  selected,     \* indices into that batch of the grids it returned, in order
  lastCall,     \* the last public method called
  raised,       \* TRUE once a call ended by throwing
  iterateInfo,  \* the last iterate call: its inputs before and after, clone refs
  fillInfo,     \* the last fillEmptySpaces call: loop counts
  calls,        \* number of iterate and fillEmptySpaces calls made
  twin,         \* a second run of the same program on the same inputs
  compiler,     \* a call of the static compile made apart from a generator
  placer        \* calls of #generateQuestion on one clone, round by round

vars == <<options, ignored, seed, random, mathRandom, matrices, solutions,
          selected, lastCall, raised, iterateInfo, fillInfo, calls, twin,
          compiler, placer>>

-----------------------------------------------------------------------------
(* Bounds of the model *)

\* seeds the caller passes to generate: 0 .. NumSeeds - 1
NumSeeds == 6

\* iterate / fillEmptySpaces calls after generate
MaxCalls == 3

\* lines of the dictionary given to a compile call made apart from a generator
MaxLines == 2

\* calls of #generateQuestion followed round by round on one clone
MaxPlacerCalls == 5

-----------------------------------------------------------------------------
(* Arithmetic and sequence helpers *)

Max(a, b) == IF a >= b THEN a ELSE b

Min(a, b) == IF a <= b THEN a ELSE b

\* Array.prototype.indexOf: 0-based index of the first occurrence, or -1
IndexOf(arr, item) ==
  IF \E i \in 1..Len(arr) : arr[i] = item
  THEN (CHOOSE i \in 1..Len(arr) :
          arr[i] = item /\ \A j \in 1..(i - 1) : arr[j] # item) - 1
  ELSE -1

\* Array.prototype.includes
Includes(arr, item) == \E i \in 1..Len(arr) : arr[i] = item

\* the middle of the rounds lo .. hi of a loop.  A loop of the source is an
\* operator over a range of rounds: it runs the first half of the range, and
\* then the second half from the state the first half ended in
Middle(lo, hi) == (lo + hi) \div 2

-----------------------------------------------------------------------------
(* compile *)

\* the character class of the index pattern /[A-Z0-9ÁÉÍÓÚÜÑ]+/
IndexChars ==
  { "A", "B", "C", "D", "E", "F", "G", "H", "I", "J", "K", "L", "M",
    "N", "O", "P", "Q", "R", "S", "T", "U", "V", "W", "X", "Y", "Z",
    "0", "1", "2", "3", "4", "5", "6", "7", "8", "9",
    "Á", "É", "Í", "Ó", "Ú", "Ü", "Ñ" }

\* item.match(/\s+/) === null
HasNoSpace(item) == \A i \in 1..Len(item) : item[i] # " "

\* the test of the word without the pattern
LongEnough(word) == Len(word) > 1

\* match !== null && match[0] === word && word.length > 1
Accepted(word) ==
  /\ Len(word) > 1
  /\ \A i \in 1..Len(word) : word[i] \in IndexChars

\* dictionaries.flatMap((d) => d)
RECURSIVE FlatMap(_)
FlatMap(dictionaries) ==
  IF dictionaries = <<>> THEN <<>>
  ELSE Head(dictionaries) \o FlatMap(Tail(dictionaries))

\* a body that takes a single token only when it is the first of its line
GroupFirstWord(st, item) ==
  IF Len(item) > 1 /\ HasNoSpace(item) /\ st.set1 = <<>>
  THEN [st EXCEPT !.set1 = Append(@, item),
                  !.words = IF IndexOf(@, item) = -1
                            THEN Append(@, item) ELSE @]
  ELSE st

\* the body of line.forEach: the item goes to set1 (a single token) or set2
\* (a text with spaces), and is registered if it is a new word or phrase
GroupItem(st, item) ==
  IF Len(item) > 1
  THEN IF HasNoSpace(item)
       THEN [st EXCEPT !.set1 = Append(@, item),
                       !.words = IF IndexOf(@, item) = -1
                                 THEN Append(@, item) ELSE @]
       ELSE [st EXCEPT !.set2 = Append(@, item),
                       !.phrases = IF IndexOf(@, item) = -1
                                   THEN Append(@, item) ELSE @]
  ELSE st

\* line.forEach over the items lo .. hi of the line
RECURSIVE GroupItems(_, _, _, _)
GroupItems(st, line, lo, hi) ==
  IF lo > hi THEN st
  ELSE IF lo = hi THEN GroupItem(st, line[lo])
  ELSE CHOOSE last \in
         { GroupItems(first, line, Middle(lo, hi) + 1, hi) :
             first \in { GroupItems(st, line, lo, Middle(lo, hi)) } } : TRUE

\* groupMap.get(itemIdx), or [[], []]
GroupMapGet(groupMap, itemIdx) ==
  IF itemIdx \in DOMAIN groupMap THEN groupMap[itemIdx] ELSE << <<>>, <<>> >>

\* the ids pushed for one item of set1: the other words of the line
OtherWords(set1, item, words) ==
  LET Other(w) == w # item
  IN [j \in 1..Len(SelectSeq(set1, Other)) |->
        IndexOf(words, SelectSeq(set1, Other)[j])]

PhraseIds(set2, phrases) == [j \in 1..Len(set2) |-> IndexOf(phrases, set2[j])]

\* the body of set1.forEach of lines 101-114
CrossReference(st, item) ==
  [st EXCEPT
     !.groupMap =
        (IndexOf(st.words, item) :>
           << GroupMapGet(@, IndexOf(st.words, item))[1]
                \o OtherWords(st.set1, item, st.words),
              GroupMapGet(@, IndexOf(st.words, item))[2]
                \o PhraseIds(st.set2, st.phrases) >>) @@ @]

\* set1.forEach over the items lo .. hi of set1
RECURSIVE CrossReferences(_, _, _)
CrossReferences(st, lo, hi) ==
  IF lo > hi THEN st
  ELSE IF lo = hi THEN CrossReference(st, st.set1[lo])
  ELSE CHOOSE last \in
         { CrossReferences(first, Middle(lo, hi) + 1, hi) :
             first \in { CrossReferences(st, lo, Middle(lo, hi)) } } : TRUE

\* the body of for (let line of data)
GroupLine(st, line) ==
  CHOOSE grouped \in
    { IF Len(g.set1) > 0 /\ Len(g.set1) + Len(g.set2) > 1
      THEN CrossReferences(g, 1, Len(g.set1))
      ELSE g :
        g \in { GroupItems([st EXCEPT !.set1 = <<>>, !.set2 = <<>>],
                           line, 1, Len(line)) } } : TRUE

\* for (let line of data) over the lines lo .. hi
RECURSIVE GroupLines(_, _, _, _)
GroupLines(st, data, lo, hi) ==
  IF lo > hi THEN st
  ELSE IF lo = hi THEN GroupLine(st, data[lo])
  ELSE CHOOSE last \in
         { GroupLines(first, data, Middle(lo, hi) + 1, hi) :
             first \in { GroupLines(st, data, lo, Middle(lo, hi)) } } : TRUE

\* lengths[length].push(idx), after filling lengths[0..length] with []
PushLength(lengths, length, idx) ==
  [lengths \o [i \in 1..(length + 1 - Len(lengths)) |-> <<>>]
     EXCEPT ![length + 1] = Append(@, idx)]

\* the push under a key that counts the positions from 1
PushLetterFromOne(letters, word, idx, i) ==
  (<<i + 1, word[i + 1]>> :>
     Append(IF <<i + 1, word[i + 1]>> \in DOMAIN letters
            THEN letters[<<i + 1, word[i + 1]>>] ELSE <<>>, idx)) @@ letters

\* letters["" + i + word[i]].push(idx) for position i of the word
PushLetter(letters, word, idx, i) ==
  (<<i, word[i + 1]>> :>
     Append(IF <<i, word[i + 1]>> \in DOMAIN letters
            THEN letters[<<i, word[i + 1]>>] ELSE <<>>, idx)) @@ letters

\* for (let i = 0; i < word.length; i++) over the positions lo .. hi
RECURSIVE PushLetters(_, _, _, _, _)
PushLetters(letters, word, idx, lo, hi) ==
  IF lo > hi THEN letters
  ELSE IF lo = hi THEN PushLetter(letters, word, idx, lo)
  ELSE CHOOSE last \in
         { PushLetters(first, word, idx, Middle(lo, hi) + 1, hi) :
             first \in { PushLetters(letters, word, idx, lo,
                                     Middle(lo, hi)) } } : TRUE

\* the body of words.forEach of lines 129-153
IndexWord(ix, word, idx) ==
  IF Accepted(word)
  THEN [lengths |-> PushLength(ix.lengths, Len(word), idx),
        letters |-> PushLetters(ix.letters, word, idx, 0, Len(word) - 1)]
  ELSE ix

\* words.forEach over the ids lo .. hi
RECURSIVE IndexWords(_, _, _, _)
IndexWords(ix, words, lo, hi) ==
  IF lo > hi THEN ix
  ELSE IF lo = hi THEN IndexWord(ix, words[lo + 1], lo)
  ELSE CHOOSE last \in
         { IndexWords(first, words, Middle(lo, hi) + 1, hi) :
             first \in { IndexWords(ix, words, lo, Middle(lo, hi)) } } : TRUE

\* the empty object {} and the empty Map
EmptyMap == <<>>

\* compile(dictionaries): questions is groupMap, an id without entry is
\* undefined
compile(dictionaries) ==
  CHOOSE compilation \in
    { [words |-> g.words,
       letters |-> IndexWords([lengths |-> <<>>, letters |-> EmptyMap],
                              g.words, 0, Len(g.words) - 1).letters,
       lengths |-> IndexWords([lengths |-> <<>>, letters |-> EmptyMap],
                              g.words, 0, Len(g.words) - 1).lengths,
       phrases |-> g.phrases,
       questions |-> g.groupMap] :
        g \in { GroupLines([words |-> <<>>, phrases |-> <<>>,
                            groupMap |-> EmptyMap, set1 |-> <<>>,
                            set2 |-> <<>>],
                           FlatMap(dictionaries), 1,
                           Len(FlatMap(dictionaries))) } } : TRUE

-----------------------------------------------------------------------------
(* The two random sources.  this.random is the generator that               *)
(* require("math-random-seed") returns for a seed: a deterministic          *)
(* sequence of numbers in [0, 1) fixed by the seed.  Math.random is the     *)
(* runtime's generator, whose state is set by the process, never by the     *)
(* seed.  Each is a linear congruential generator over 0..4095 here; a      *)
(* number it returns is (state \div 64) / 64.                               *)

\* a generator that also takes entropy from the process
SeedFromProcess(seedData, entropy) ==
  (seedData * 977 + 389 + entropy) % 4096

\* seed(seedData): the state the generator starts from.  entropy is what the
\* process would supply had no seed been passed
SeedRandom(seedData, entropy) == (seedData * 977 + 389) % 4096

\* the state after one call of this.random()
NextRandom(s) == (s * 1229 + 1) % 4096

\* the state after one call of Math.random()
NextMathRandom(s) == (s * 2741 + 3) % 4096

\* Math.floor(r * n), r the number returned by the call that left state s
FloorRandom(s, n) == ((s \div 64) * n) \div 64

-----------------------------------------------------------------------------
(* Grids *)

\* cell[0], cell[1] (part of a vertical word), cell[2] (part of a horizontal)
EmptyCell == <<options.emptySpace, FALSE, FALSE>>

\* generate: the matrix, before the seed is stored.  Array.fill puts ONE cell
\* array in every column of a row: shared records that the cells of a row
\* are still that one array.
NewMatrix ==
  [rows |-> [y \in 0..(options.height - 1) |->
               [x \in 0..(options.width - 1) |-> EmptyCell]],
   shared |-> TRUE,
   questions |-> {},
   questionsData |-> <<>>,
   width |-> options.width,
   height |-> options.height,
   finish |-> FALSE,
   borde |-> FALSE,
   hash |-> 0,
   intersections |-> 0,
   isolatedWords |-> 0,
   fillingPercentage |-> 0,
   score |-> <<0, 1>>]

\* clone(matrix) of rfdc: every array and object is copied, so no cell of the
\* copy is shared with the source or with another cell
CloneMatrix(matrix) == [matrix EXCEPT !.shared = FALSE]

\* matrix[y][x][k] = v
SetCell(matrix, x, y, k, v) ==
  LET row == matrix.rows[y]
      row2 == IF matrix.shared
              THEN [xx \in DOMAIN row |-> [row[xx] EXCEPT ![k + 1] = v]]
              ELSE [row EXCEPT ![x] = [@ EXCEPT ![k + 1] = v]]
  IN [matrix EXCEPT !.rows = [@ EXCEPT ![y] = row2]]

\* matrix[y][x][0] !== this.options.emptySpace
Occupied(matrix, x, y) == matrix.rows[y][x][1] # options.emptySpace

\* the cell of offset i of a span starting at (x, y)
SpanX(horizontal, x, i) == IF horizontal = 1 THEN x + i ELSE x

SpanY(horizontal, y, i) == IF horizontal = 1 THEN y ELSE y + i

\* #getPreguntasPorPosicion: the placements covering (x, y)
getPreguntasPorPosicion(matrix, x, y) ==
  { k \in 1..Len(matrix.questionsData) :
      LET question == matrix.questionsData[k] IN
        \/ /\ question.horizontal = 1
           /\ question.x <= x
           /\ question.x + Len(question.word) > x
           /\ question.y = y
        \/ /\ question.horizontal # 1
           /\ question.y <= y
           /\ question.y + Len(question.word) > y
           /\ question.x = x }

\* the idx of those placements
IdxAt(matrix, x, y) ==
  { matrix.questionsData[k].idx : k \in getPreguntasPorPosicion(matrix, x, y) }

\* #normalizeLetter
normalizeLetter(letter) ==
  CASE letter = "á" -> "a"
    [] letter = "é" -> "e"
    [] letter = "í" -> "i"
    [] letter = "ó" -> "o"
    [] letter = "ú" -> "u"
    [] letter = "ü" -> "u"
    [] OTHER -> letter

\* the body of the loop of lines 1119-1129: letter i of the word
WriteLetter(matrix, word, horizontal, x, y, i) ==
  SetCell(SetCell(matrix, SpanX(horizontal, x, i), SpanY(horizontal, y, i),
                  0, normalizeLetter(word[i + 1])),
          SpanX(horizontal, x, i), SpanY(horizontal, y, i),
          1 + horizontal, TRUE)

\* lines 1119-1129: the letters lo .. hi of the word written along the span
RECURSIVE WriteWord(_, _, _, _, _, _, _)
WriteWord(matrix, word, horizontal, x, y, lo, hi) ==
  IF lo > hi THEN matrix
  ELSE IF lo = hi THEN WriteLetter(matrix, word, horizontal, x, y, lo)
  ELSE CHOOSE last \in
         { WriteWord(first, word, horizontal, x, y, Middle(lo, hi) + 1, hi) :
             first \in { WriteWord(matrix, word, horizontal, x, y, lo,
                                   Middle(lo, hi)) } } : TRUE

-----------------------------------------------------------------------------
(* #generateQuestion: the placer *)

\* this.options.wordsOnBorder as a condition; the option is the fraction
\* wordsOnBorder[1] / wordsOnBorder[2]
BorderWanted == options.wordsOnBorder[1] # 0

\* compilation.lengths[length], defined for 0 <= length < lengths.length
LengthsAt(length) == options.compilation.lengths[length + 1]

\* the words without the filter on this.ignored
KeepIgnored(words) == words

\* words.filter((word) => this.ignored.has(word) === false)
NotIgnored(words) ==
  LET Keep(word) == word \notin ignored IN SelectSeq(words, Keep)

\* lines 929-950; r is the state left by the one draw of the expression.
\* minimumLengthFactor is an integer here, so the Math.floor of the product
\* is the product
TargetLength(matrixClone, horizontal, r) ==
  Max(Max(2,
          Min(Min(options.width, options.height),
              (Len(options.compilation.lengths) \div 3) - 1)
            - Len(matrixClone.questionsData) * options.minimumLengthFactor),
      FloorRandom(r, Min(IF horizontal = 1 THEN options.width
                                           ELSE options.height,
                         Len(options.compilation.lengths))))

\* the x of a position pinned to the edge once borde is true, and free
\* before
PositionXPinnedOnceBorde(matrixClone, horizontal, length, r) ==
  IF BorderWanted /\ matrixClone.borde
  THEN IF horizontal = 1
       THEN FloorRandom(r, options.width - length)
       ELSE FloorRandom(r, 2) * (options.width - 1)
  ELSE IF horizontal = 1
       THEN FloorRandom(r, options.width - length)
       ELSE FloorRandom(r, options.width)

\* lines 961-975, the x of the candidate position
PositionX(matrixClone, horizontal, length, r) ==
  IF BorderWanted /\ ~matrixClone.borde
  THEN IF horizontal = 1
       THEN FloorRandom(r, options.width - length)
       ELSE FloorRandom(r, 2) * (options.width - 1)
  ELSE IF horizontal = 1
       THEN FloorRandom(r, options.width - length)
       ELSE FloorRandom(r, options.width)

\* lines 961-975, the y of the candidate position
PositionY(matrixClone, horizontal, length, r) ==
  IF BorderWanted /\ ~matrixClone.borde
  THEN IF horizontal = 1
       THEN FloorRandom(r, 2) * (options.height - 1)
       ELSE FloorRandom(r, options.height - length)
  ELSE IF horizontal = 1
       THEN FloorRandom(r, options.height)
       ELSE FloorRandom(r, options.height - length)

\* lines 979-995: the cell before the start and the cell after the end are
\* empty
EndsFree(matrixClone, horizontal, x, y, length) ==
  ~ \/ horizontal = 1 /\ x > 0 /\ Occupied(matrixClone, x - 1, y)
    \/ horizontal = 1 /\ x < options.width - length
                      /\ Occupied(matrixClone, x + length, y)
    \/ horizontal # 1 /\ y > 0 /\ Occupied(matrixClone, x, y - 1)
    \/ horizontal # 1 /\ y < options.height - length
                      /\ Occupied(matrixClone, x, y + length)

\* the overlap test made on the flag of the other orientation
NoOverlapOtherFlag(matrixClone, horizontal, x, y, length) ==
  \A i \in 0..(length - 1) :
    ~matrixClone.rows[SpanY(horizontal, y, i)][SpanX(horizontal, x, i)]
                     [3 - horizontal]

\* lines 1002-1010: no cell of the span is part of a word of the orientation
NoOverlap(matrixClone, horizontal, x, y, length) ==
  \A i \in 0..(length - 1) :
    ~matrixClone.rows[SpanY(horizontal, y, i)][SpanX(horizontal, x, i)]
                     [2 + horizontal]

\* a set of neighbours that is always empty
NoNeighbours(matrixClone, horizontal, x, y, length) == {}

\* vecinoAdjacente: idx of the placements covering a cell beside the span
VecinoAdjacente(matrixClone, horizontal, x, y, length) ==
  UNION { IF horizontal = 1
          THEN (IF y > 0 THEN IdxAt(matrixClone, x + i, y - 1) ELSE {})
               \cup (IF y < options.height - 1
                     THEN IdxAt(matrixClone, x + i, y + 1) ELSE {})
          ELSE (IF x > 0 THEN IdxAt(matrixClone, x - 1, y + i) ELSE {})
               \cup (IF x < options.width - 1
                     THEN IdxAt(matrixClone, x + 1, y + i) ELSE {})
        : i \in 0..(length - 1) }

\* vecinoCruce: idx of the placements covering a cell of the span
VecinoCruce(matrixClone, horizontal, x, y, length) ==
  UNION { IdxAt(matrixClone, SpanX(horizontal, x, i), SpanY(horizontal, y, i))
        : i \in 0..(length - 1) }

\* matches: "" + i + letter for every non-empty cell of the span
Matches(matrixClone, horizontal, x, y, length) ==
  LET NonEmpty(i) == Occupied(matrixClone, SpanX(horizontal, x, i),
                              SpanY(horizontal, y, i))
      found == SelectSeq([k \in 1..length |-> k - 1], NonEmpty)
  IN [k \in 1..Len(found) |->
        <<found[k], matrixClone.rows[SpanY(horizontal, y, found[k])]
                                    [SpanX(horizontal, x, found[k])][1]>>]

\* the match test without palabrasMatch.includes(palabra)
MatchKnown(match, palabra) == match \in DOMAIN options.compilation.letters

\* a word id passes a match: letters[match] is defined and includes it
MatchHolds(match, palabra) ==
  /\ match \in DOMAIN options.compilation.letters
  /\ Includes(options.compilation.letters[match], palabra)

\* lines 1083-1101
FilterMatches(palabras, matches) ==
  LET Keep(palabra) ==
        \A k \in 1..Len(matches) : MatchHolds(matches[k], palabra)
  IN SelectSeq(palabras, Keep)

\* one round of the while loop of lines 1108-1115, the count-th: a draw; the
\* hundredth draw gives up whatever it drew.  stop is set when the loop is
\* left, and the rounds after it leave the state alone
Draw(matrixClone, palabras, s, count) ==
  IF s.stop THEN s
  ELSE [ok |-> count # 100,
        idx |-> palabras[FloorRandom(NextRandom(s.random), Len(palabras)) + 1],
        random |-> NextRandom(s.random),
        stop |-> \/ count = 100
                 \/ palabras[FloorRandom(NextRandom(s.random),
                                         Len(palabras)) + 1]
                      \notin matrixClone.questions]

\* the rounds lo .. hi of that loop
RECURSIVE Draws(_, _, _, _, _)
Draws(matrixClone, palabras, s, lo, hi) ==
  IF lo = hi THEN Draw(matrixClone, palabras, s, lo)
  ELSE CHOOSE last \in
         { Draws(matrixClone, palabras, first, Middle(lo, hi) + 1, hi) :
             first \in { Draws(matrixClone, palabras, s, lo,
                               Middle(lo, hi)) } } : TRUE

\* lines 1106-1115: the id drawn, whether the loop ended with ok still true,
\* and the state of the generator after the draws
PickWord(matrixClone, palabras, r) ==
  Draws(matrixClone, palabras,
        [ok |-> TRUE, idx |-> -1, random |-> r, stop |-> FALSE], 1, 100)

\* llevo: the letters of all placed words, .map((p) => p.word).join("").length
Llevo(questionsData) ==
  Cardinality({ p \in (1..Len(questionsData)) \X (1..Max(options.width,
                                                       options.height)) :
                  p[2] <= Len(questionsData[p[1]].word) })

\* llevo / total >= this.options.wordsOnBorder
BorderReachedOrEqual(matrixClone) ==
  Llevo(matrixClone.questionsData) * options.wordsOnBorder[2]
    >= options.wordsOnBorder[1] * ((options.width + options.height) * 2)

\* llevo / total > this.options.wordsOnBorder
BorderReached(matrixClone) ==
  Llevo(matrixClone.questionsData) * options.wordsOnBorder[2]
    > options.wordsOnBorder[1] * ((options.width + options.height) * 2)

\* lines 1139-1146
UpdateBorde(matrixClone) ==
  IF BorderWanted /\ ~matrixClone.borde
  THEN [matrixClone EXCEPT !.borde = BorderReached(matrixClone)]
  ELSE matrixClone

\* the word written at (x, y) and registered one cell further along
PlaceWordShifted(matrixClone, idx, horizontal, x, y, length) ==
  UpdateBorde(
    [WriteWord(matrixClone, options.compilation.words[idx + 1], horizontal,
               x, y, 0, length - 1)
       EXCEPT !.questions = @ \cup {idx},
              !.questionsData =
                 Append(@, [idx |-> idx,
                            word |-> options.compilation.words[idx + 1],
                            horizontal |-> horizontal,
                            x |-> SpanX(horizontal, x, 1),
                            y |-> SpanY(horizontal, y, 1)])])

\* lines 1117-1147: the word written, registered, and the border flag
PlaceWord(matrixClone, idx, horizontal, x, y, length) ==
  UpdateBorde(
    [WriteWord(matrixClone, options.compilation.words[idx + 1], horizontal,
               x, y, 0, length - 1)
       EXCEPT !.questions = @ \cup {idx},
              !.questionsData =
                 Append(@, [idx |-> idx,
                            word |-> options.compilation.words[idx + 1],
                            horizontal |-> horizontal, x |-> x, y |-> y])])

\* lines 1105-1149: a word is picked from palabras and placed
AttemptWith(matrixClone, horizontal, length, x, y, pick) ==
  IF pick.ok
  THEN [matrix |-> PlaceWord(matrixClone, pick.idx, horizontal, x, y, length),
        random |-> pick.random, placed |-> TRUE, threw |-> FALSE]
  ELSE [matrix |-> matrixClone, random |-> pick.random,
        placed |-> FALSE, threw |-> FALSE]

\* lines 977-1010: ok after the tests of the ends, the overlap and the
\* neighbours
Fits(matrixClone, horizontal, x, y, length) ==
  /\ EndsFree(matrixClone, horizontal, x, y, length)
  /\ NoOverlap(matrixClone, horizontal, x, y, length)
  /\ VecinoAdjacente(matrixClone, horizontal, x, y, length)
       \subseteq VecinoCruce(matrixClone, horizontal, x, y, length)

\* lines 1083-1101: palabras after the filter by the letters on the span
Palabras(length, matches) ==
  IF Len(matches) > 0
  THEN FilterMatches(NotIgnored(LengthsAt(length)), matches)
  ELSE NotIgnored(LengthsAt(length))

\* the tests at the position without the one of line 1102, which refuses a
\* word that crosses nothing once borde is true
AttemptAtAnywhere(matrixClone, horizontal, length, x, y, matches, r) ==
  IF /\ Fits(matrixClone, horizontal, x, y, length)
     /\ Len(Palabras(length, matches)) > 0
  THEN AttemptWith(matrixClone, horizontal, length, x, y,
                   PickWord(matrixClone, Palabras(length, matches), r))
  ELSE [matrix |-> matrixClone, random |-> r,
        placed |-> FALSE, threw |-> FALSE]

\* lines 977-1150 at the position (x, y); r is the generator state after the
\* draws of the position
AttemptAt(matrixClone, horizontal, length, x, y, matches, r) ==
  IF /\ Fits(matrixClone, horizontal, x, y, length)
     /\ ~(Len(matches) = 0 /\ BorderWanted /\ matrixClone.borde)
     /\ Len(Palabras(length, matches)) > 0
  THEN AttemptWith(matrixClone, horizontal, length, x, y,
                   PickWord(matrixClone, Palabras(length, matches), r))
  ELSE [matrix |-> matrixClone, random |-> r,
        placed |-> FALSE, threw |-> FALSE]

\* lines 952-975 for the length drawn; r is the generator state after the
\* draw of the length
AttemptOfLength(matrixClone, horizontal, length, r) ==
  IF length >= Len(options.compilation.lengths)
  THEN \* palabras is undefined: palabras.filter throws a TypeError
       [matrix |-> matrixClone, random |-> r,
        placed |-> FALSE, threw |-> TRUE]
  ELSE CHOOSE attempt \in
         { AttemptAt(matrixClone, horizontal, length, p[1], p[2],
                     Matches(matrixClone, horizontal, p[1], p[2], length),
                     NextRandom(NextRandom(r))) :
             p \in { << PositionX(matrixClone, horizontal, length,
                                  NextRandom(r)),
                        PositionY(matrixClone, horizontal, length,
                                  NextRandom(NextRandom(r))) >> } } : TRUE

\* lines 928-1150: one pass of the while (true) body after the retry
\* bookkeeping; r is the generator state before it.  The result is the grid,
\* the generator state, whether a word was placed and whether the pass threw
Attempt(matrixClone, r) ==
  AttemptOfLength(matrixClone, FloorRandom(NextRandom(r), 2),
                  TargetLength(matrixClone, FloorRandom(NextRandom(r), 2),
                               NextRandom(NextRandom(r))),
                  NextRandom(NextRandom(r)))

\* a test of the counter that never holds
NeverLast(s) == FALSE

\* intento === this.options.finishAt after intento++
LastTry(s) == s.intento + 1 = options.finishAt

\* a round that does not look at the flag finish
RoundOnFinished(s) ==
  IF s.returned \/ s.threw THEN s
  ELSE IF LastTry(s) /\ ~(BorderWanted /\ ~s.matrix.borde)
  THEN [s EXCEPT !.matrix = [@ EXCEPT !.finish = TRUE], !.returned = TRUE]
  ELSE CHOOSE next \in
         { [matrix |-> a.matrix, random |-> a.random,
            intento |-> IF LastTry(s) THEN 0 ELSE s.intento + 1,
            placed |-> a.placed, threw |-> a.threw, returned |-> a.placed] :
             a \in { Attempt(IF LastTry(s)
                             THEN [s.matrix EXCEPT !.borde = TRUE]
                             ELSE s.matrix,
                             s.random) } } : TRUE

\* one round of while (true) of #generateQuestion (lines 913-1152); returned
\* is set by a return statement and threw by an exception, and the rounds
\* after either leave the state alone
Round(s) ==
  IF s.returned \/ s.threw THEN s
  ELSE IF s.matrix.finish
  THEN [s EXCEPT !.returned = TRUE]
  ELSE IF LastTry(s) /\ ~(BorderWanted /\ ~s.matrix.borde)
  THEN [s EXCEPT !.matrix = [@ EXCEPT !.finish = TRUE], !.returned = TRUE]
  ELSE CHOOSE next \in
         { [matrix |-> a.matrix, random |-> a.random,
            intento |-> IF LastTry(s) THEN 0 ELSE s.intento + 1,
            placed |-> a.placed, threw |-> a.threw, returned |-> a.placed] :
             a \in { Attempt(IF LastTry(s)
                             THEN [s.matrix EXCEPT !.borde = TRUE]
                             ELSE s.matrix,
                             s.random) } } : TRUE

\* the rounds lo .. hi of while (true)
RECURSIVE Rounds(_, _, _)
Rounds(s, lo, hi) ==
  IF lo = hi THEN Round(s)
  ELSE CHOOSE last \in
         { Rounds(first, Middle(lo, hi) + 1, hi) :
             first \in { Rounds(s, lo, Middle(lo, hi)) } } : TRUE

\* intento reaches finishAt within finishAt rounds, and the second time it
\* does the loop returns: the rounds one call can make
MaxRounds == 2 * options.finishAt + 1

\* #generateQuestion(matrixClone) with this.random in state r
generateQuestion(matrixClone, r) ==
  Rounds([matrix |-> matrixClone, random |-> r, intento |-> 0,
          placed |-> FALSE, threw |-> FALSE, returned |-> FALSE],
         1, MaxRounds)

-----------------------------------------------------------------------------
(* #selectSolutions *)

UpperCase == << "A", "B", "C", "D", "E", "F", "G", "H", "I", "J", "K", "L",
                "M", "N", "O", "P", "Q", "R", "S", "T", "U", "V", "W", "X",
                "Y", "Z" >>

LowerCase == << "a", "b", "c", "d", "e", "f", "g", "h", "i", "j", "k", "l",
                "m", "n", "o", "p", "q", "r", "s", "t", "u", "v", "w", "x",
                "y", "z" >>

DigitChars == << "0", "1", "2", "3", "4", "5", "6", "7", "8", "9" >>

\* String.prototype.charCodeAt of a one-character string
charCodeAt(c) ==
  CASE Includes(UpperCase, c) -> 65 + IndexOf(UpperCase, c)
    [] Includes(LowerCase, c) -> 97 + IndexOf(LowerCase, c)
    [] Includes(DigitChars, c) -> 48 + IndexOf(DigitChars, c)
    [] c = "_" -> 95
    [] c = " " -> 32
    [] c = "Á" -> 193
    [] c = "É" -> 201
    [] c = "Í" -> 205
    [] c = "Ñ" -> 209
    [] c = "Ó" -> 211
    [] c = "Ú" -> 218
    [] c = "Ü" -> 220
    [] c = "á" -> 225
    [] c = "é" -> 233
    [] c = "í" -> 237
    [] c = "ó" -> 243
    [] c = "ú" -> 250
    [] c = "ü" -> 252
    [] c = "·" -> 183

\* "" + n for an integer n >= 0

\* "" + n for an integer n >= 0
RECURSIVE NumberToString(_)
NumberToString(n) ==
  IF n < 10 THEN <<DigitChars[n + 1]>>
  ELSE NumberToString(n \div 10) \o <<DigitChars[(n % 10) + 1]>>

\* lines 837-843: what one placement adds to the text
HashPiece(current) ==
  current.word \o <<"_">> \o NumberToString(current.horizontal)
               \o <<"_">> \o NumberToString(current.x)
               \o <<"_">> \o NumberToString(current.y)

\* the pieces of the placements lo .. hi, joined
RECURSIVE HashPieces(_, _, _)
HashPieces(questionsData, lo, hi) ==
  IF lo > hi THEN <<>>
  ELSE IF lo = hi THEN HashPiece(questionsData[lo])
  ELSE HashPieces(questionsData, lo, Middle(lo, hi))
         \o HashPieces(questionsData, Middle(lo, hi) + 1, hi)

\* lines 833-844: the text that is hashed, the placements from first to last
HashText(questionsData) == HashPieces(questionsData, 1, Len(questionsData))

\* one round of #hashCode: ((hash << 5) - hash + char) as a 32-bit integer,
\* computed on the two 16-bit halves of hash
HashStep(hash, char) ==
  LET lo == hash % 65536
      hi == (hash \div 65536) % 65536
      lo2 == lo * 31 + char
      hi2 == (hi * 31 + (lo2 \div 65536)) % 65536
  IN IF hi2 >= 32768
     THEN (hi2 - 65536) * 65536 + (lo2 % 65536)
     ELSE hi2 * 65536 + (lo2 % 65536)

\* the rounds lo .. hi of the for loop of #hashCode
RECURSIVE HashChars(_, _, _, _)
HashChars(hash, str, lo, hi) ==
  IF lo > hi THEN hash
  ELSE IF lo = hi THEN HashStep(hash, charCodeAt(str[lo]))
  ELSE CHOOSE last \in
         { HashChars(first, str, Middle(lo, hi) + 1, hi) :
             first \in { HashChars(hash, str, lo, Middle(lo, hi)) } } : TRUE

\* #hashCode
hashCode(str) == HashChars(0, str, 1, Len(str))

\* the test of lines 1200-1229: question1 crosses question2
Crosses(question1, question2) ==
  /\ question1.word # question2.word
  /\ question1.horizontal # question2.horizontal
  /\ IF question1.horizontal # 0
     THEN /\ question1.x <= question2.x
          /\ question1.x + Len(question1.word) > question2.x
          /\ question1.y >= question2.y
          /\ question1.y < question2.y + Len(question2.word)
     ELSE /\ question1.y <= question2.y
          /\ question1.y + Len(question1.word) > question2.y
          /\ question1.x >= question2.x
          /\ question1.x < question2.x + Len(question2.word)

\* subCruces of one placement
SubCruces(matrix, k) ==
  Cardinality({ j \in 1..Len(matrix.questionsData) :
                  Crosses(matrix.questionsData[k], matrix.questionsData[j]) })

\* #getIntersections: [crosses, singles].  crosses is the sum of subCruces
\* over the placements, singles the placements whose subCruces is 0
getIntersections(matrix) ==
  << Cardinality({ p \in (1..Len(matrix.questionsData))
                           \X (1..Len(matrix.questionsData)) :
                     Crosses(matrix.questionsData[p[1]],
                             matrix.questionsData[p[2]]) }),
     Cardinality({ k \in 1..Len(matrix.questionsData) :
                     SubCruces(matrix, k) = 0 }) >>

\* a count of all the cells, empty or not
CountCells(matrix) == options.width * options.height

\* #getFillingPercentage: the number of non-empty cells
getFillingPercentage(matrix) ==
  Cardinality({ c \in (DOMAIN matrix.rows) \X (0..(options.width - 1)) :
                  c[2] \in DOMAIN matrix.rows[c[1]]
                    /\ matrix.rows[c[1]][c[2]][1] # options.emptySpace })

\* the default options.scoreFunction, the quotient as <<numerator,
\* denominator>>
scoreFunction(filled, crosses, singles) ==
  << filled * 4 + 2 * crosses, 1 + singles * 4 >>

\* the comparator written as a.score - b.score
ScoreLess(a, b) == a[1] * b[2] < b[1] * a[2]

\* b.score - a.score is negative: a sorts before b
ScoreGreater(a, b) == a[1] * b[2] > b[1] * a[2]

\* lines 831-855 for one grid
Annotate(matrix) ==
  LET intersections == getIntersections(matrix)
      filling == getFillingPercentage(matrix)
  IN [matrix EXCEPT
        !.hash = hashCode(HashText(matrix.questionsData)),
        !.intersections = intersections[1],
        !.isolatedWords = intersections[2],
        !.fillingPercentage = filling,
        !.score = scoreFunction(filling, intersections[1], intersections[2])]

\* the selection without the test of the hashes seen
AllSolutions(batch) == [i \in 1..Len(batch) |-> i]

\* lines 857-864: positions in the batch of the first grid of every hash: a
\* grid is pushed when no grid before it in the batch has its hash
UniqueSolutions(batch) ==
  LET First(i) == \A j \in 1..(i - 1) : batch[j].hash # batch[i].hash
  IN SelectSeq([i \in 1..Len(batch) |-> i], First)

\* uniqueSolutions.sort((a, b) => b.score - a.score).  Array.prototype.sort
\* is stable: an element is preceded by those that sort before it and by
\* those before it in the array that do not sort after it
SortByScore(batch, arr) ==
  LET Precedes(m, k) ==
        \/ ScoreGreater(batch[arr[m]].score, batch[arr[k]].score)
        \/ /\ ~ScoreGreater(batch[arr[k]].score, batch[arr[m]].score)
           /\ m < k
      Rank(k) == Cardinality({ m \in 1..Len(arr) : m # k /\ Precedes(m, k) })
  IN [p \in 1..Len(arr) |->
        arr[CHOOSE k \in 1..Len(arr) : Rank(k) = p - 1]]

\* the selection without the truncation
KeepAll(arr, cantidadRetornada) == arr

\* uniqueSolutions.length = Math.min(uniqueSolutions.length, count)
Truncate(arr, cantidadRetornada) ==
  SubSeq(arr, 1, Min(Len(arr), cantidadRetornada))

\* lines 857-872 on an annotated batch: the positions in the batch of the
\* grids returned, in the order returned
selectSolutions(batch, cantidadRetornada) ==
  Truncate(SortByScore(batch, UniqueSolutions(batch)), cantidadRetornada)

-----------------------------------------------------------------------------
(* iterate.  The grids live in a heap, a sequence of objects; a reference  *)
(* is a position in it.  The caller's grids are the first objects.         *)

\* the candidate being the grid given, not a copy of it
SameObject(heap, ref) == [heap |-> heap, ref |-> ref]

\* clone(matrix): a new object; the reference to it
Clone(heap, ref) ==
  [heap |-> Append(heap, CloneMatrix(heap[ref])), ref |-> Len(heap) + 1]

\* line 225: one call of #generateQuestion on the object ref; after an
\* exception nothing more is done
PlaceOne(s, ref) ==
  IF s.threw THEN s
  ELSE CHOOSE next \in
         { [heap |-> [s.heap EXCEPT ![ref] = q.matrix],
            random |-> q.random, threw |-> q.threw] :
             q \in { generateQuestion(s.heap[ref], s.random) } } : TRUE

\* a loop over wordsPerIteration that places no word
PlaceNone(s, ref, lo, hi) == s

\* lines 224-226: the rounds lo .. hi of the loop over wordsPerIteration
RECURSIVE PlaceWords(_, _, _, _)
PlaceWords(s, ref, lo, hi) ==
  IF lo > hi THEN s
  ELSE IF lo = hi THEN PlaceOne(s, ref)
  ELSE CHOOSE last \in
         { PlaceWords(first, ref, Middle(lo, hi) + 1, hi) :
             first \in { PlaceWords(s, ref, lo, Middle(lo, hi)) } } : TRUE

\* the candidate i cloned from the first grid given, whatever i is
CandidateOfFirst(s, n, i) ==
  IF s.threw THEN s
  ELSE CHOOSE next \in
         { [heap |-> b[2].heap, random |-> b[2].random,
            threw |-> b[2].threw,
            refs |-> IF b[2].threw THEN s.refs ELSE Append(s.refs, b[1])] :
             b \in { << c.ref,
                        PlaceWords([heap |-> c.heap, random |-> s.random,
                                    threw |-> FALSE],
                                   c.ref, 1, options.wordsPerIteration) >> :
                       c \in { Clone(s.heap, 1) } } } : TRUE

\* lines 218-227: the candidate i; n is matrices.length
Candidate(s, n, i) ==
  IF s.threw THEN s
  ELSE CHOOSE next \in
         { [heap |-> b[2].heap, random |-> b[2].random,
            threw |-> b[2].threw,
            refs |-> IF b[2].threw THEN s.refs ELSE Append(s.refs, b[1])] :
             b \in { << c.ref,
                        PlaceWords([heap |-> c.heap, random |-> s.random,
                                    threw |-> FALSE],
                                   c.ref, 1, options.wordsPerIteration) >> :
                       c \in { Clone(s.heap,
                                     ((n * i)
                                        \div options.solutionsPerIteration)
                                       + 1) } } } : TRUE

\* lines 217-228: the rounds lo .. hi of the loop over solutionsPerIteration
RECURSIVE Candidates(_, _, _, _)
Candidates(s, n, lo, hi) ==
  IF lo > hi THEN s
  ELSE IF lo = hi THEN Candidate(s, n, lo)
  ELSE CHOOSE last \in
         { Candidates(first, n, Middle(lo, hi) + 1, hi) :
             first \in { Candidates(s, n, lo, Middle(lo, hi)) } } : TRUE

\* solutions.forEach of lines 831-855 on the objects of the batch
AnnotateAll(heap, refs) ==
  [k \in 1..Len(heap) |->
     IF Includes(refs, k) THEN Annotate(heap[k]) ELSE heap[k]]

\* lines 229 and 857-872: what iterate returns from the candidates c, whose
\* objects are in heap; n is matrices.length
Select(c, heap, batch, n) ==
  [threw |-> c.threw,
   random |-> c.random,
   solutions |-> batch,
   selected |-> IF c.threw THEN <<>>
                ELSE selectSolutions(batch, options.selectedSolutions),
   returned |-> IF c.threw THEN <<>>
                ELSE [j \in 1..Len(selectSolutions(
                                     batch, options.selectedSolutions)) |->
                        batch[selectSolutions(
                                batch, options.selectedSolutions)[j]]],
   after |-> SubSeq(heap, 1, n),
   refs |-> c.refs]

\* iterate(matrices) with this.random in state r
iterate(input, r) ==
  CHOOSE out \in
    { Select(b[1], b[2], [k \in 1..Len(b[1].refs) |-> b[2][b[1].refs[k]]],
             Len(input)) :
        b \in { << c, IF c.threw THEN c.heap
                      ELSE AnnotateAll(c.heap, c.refs) >> :
                  c \in { Candidates([heap |-> input, random |-> r,
                                      threw |-> FALSE, refs |-> <<>>],
                                     Len(input), 0,
                                     options.solutionsPerIteration - 1) } } }
    : TRUE

-----------------------------------------------------------------------------
(* fillEmptySpaces *)

\* a scan loop is followed for at most this many rounds; one that has not
\* stopped by then is reported as not ended
ScanFuel == options.width + options.height + 2

\* x1--, x2++, y1--, y2++: the next cell of a scan
ScanNext(pos, step) == pos + step

\* one round of the while loop of lines 260-301 at x1 = s.pos; ended is
\* set when the loop is left
StepX1(matrix, y, s) ==
  LET x1 == s.pos IN
  IF s.ended THEN s
  ELSE IF x1 < 0 THEN [pos |-> 0, collision |-> FALSE, ended |-> TRUE]
  ELSE IF matrix.rows[y][x1][3]
  THEN [pos |-> x1 + 2, collision |-> FALSE, ended |-> TRUE]
  ELSE IF matrix.rows[y][x1][2]
  THEN [pos |-> x1, collision |-> TRUE, ended |-> TRUE]
  ELSE IF y > 0 /\ Occupied(matrix, x1, y - 1)
  THEN [pos |-> x1 + 1, collision |-> FALSE, ended |-> TRUE]
  ELSE IF y < options.height - 1 /\ Occupied(matrix, x1, y + 1)
  THEN [pos |-> x1 + 1, collision |-> FALSE, ended |-> TRUE]
  ELSE [s EXCEPT !.pos = ScanNext(x1, -1)]

\* one round of the while loop of lines 304-345
StepX2(matrix, y, s) ==
  LET x2 == s.pos IN
  IF s.ended THEN s
  ELSE IF x2 >= options.width
  THEN [pos |-> options.width - 1, collision |-> FALSE, ended |-> TRUE]
  ELSE IF matrix.rows[y][x2][3]
  THEN [pos |-> x2 - 2, collision |-> FALSE, ended |-> TRUE]
  ELSE IF matrix.rows[y][x2][2]
  THEN [pos |-> x2, collision |-> TRUE, ended |-> TRUE]
  ELSE IF y > 0 /\ Occupied(matrix, x2, y - 1)
  THEN [pos |-> x2 - 1, collision |-> FALSE, ended |-> TRUE]
  ELSE IF y < options.height - 1 /\ Occupied(matrix, x2, y + 1)
  THEN [pos |-> x2 - 1, collision |-> FALSE, ended |-> TRUE]
  ELSE [s EXCEPT !.pos = ScanNext(x2, 1)]

\* one round of the while loop of lines 376-417
StepY1(matrix, x, s) ==
  LET y1 == s.pos IN
  IF s.ended THEN s
  ELSE IF y1 < 0 THEN [pos |-> 0, collision |-> FALSE, ended |-> TRUE]
  ELSE IF matrix.rows[y1][x][2]
  THEN [pos |-> y1 + 2, collision |-> FALSE, ended |-> TRUE]
  ELSE IF matrix.rows[y1][x][3]
  THEN [pos |-> y1, collision |-> TRUE, ended |-> TRUE]
  ELSE IF x > 0 /\ Occupied(matrix, x - 1, y1)
  THEN [pos |-> y1 + 1, collision |-> FALSE, ended |-> TRUE]
  ELSE IF x < options.width - 1 /\ Occupied(matrix, x + 1, y1)
  THEN [pos |-> y1 + 1, collision |-> FALSE, ended |-> TRUE]
  ELSE [s EXCEPT !.pos = ScanNext(y1, -1)]

\* one round of the while loop of lines 420-461
StepY2(matrix, x, s) ==
  LET y2 == s.pos IN
  IF s.ended THEN s
  ELSE IF y2 >= options.height
  THEN [pos |-> options.height - 1, collision |-> FALSE, ended |-> TRUE]
  ELSE IF matrix.rows[y2][x][2]
  THEN [pos |-> y2 - 2, collision |-> FALSE, ended |-> TRUE]
  ELSE IF matrix.rows[y2][x][3]
  THEN [pos |-> y2, collision |-> TRUE, ended |-> TRUE]
  ELSE IF x > 0 /\ Occupied(matrix, x - 1, y2)
  THEN [pos |-> y2 - 1, collision |-> FALSE, ended |-> TRUE]
  ELSE IF x < options.width - 1 /\ Occupied(matrix, x + 1, y2)
  THEN [pos |-> y2 - 1, collision |-> FALSE, ended |-> TRUE]
  ELSE [s EXCEPT !.pos = ScanNext(y2, 1)]

\* one round of the scan named by its moving end
Step(matrix, scan, fixed, s) ==
  CASE scan = "x1" -> StepX1(matrix, fixed, s)
    [] scan = "x2" -> StepX2(matrix, fixed, s)
    [] scan = "y1" -> StepY1(matrix, fixed, s)
    [] scan = "y2" -> StepY2(matrix, fixed, s)

\* the rounds lo .. hi of a scan loop
RECURSIVE Scan(_, _, _, _, _, _)
Scan(matrix, scan, fixed, s, lo, hi) ==
  IF lo = hi THEN Step(matrix, scan, fixed, s)
  ELSE CHOOSE last \in
         { Scan(matrix, scan, fixed, first, Middle(lo, hi) + 1, hi) :
             first \in { Scan(matrix, scan, fixed, s, lo, Middle(lo, hi)) } }
         : TRUE

\* the scans from the cell (x, y): [pos, collision, ended], ended FALSE when
\* the loop is still running after ScanFuel rounds
ScanX1(matrix, y, x) ==
  Scan(matrix, "x1", y, [pos |-> x, collision |-> FALSE, ended |-> FALSE],
       1, ScanFuel)

ScanX2(matrix, y, x) ==
  Scan(matrix, "x2", y, [pos |-> x, collision |-> FALSE, ended |-> FALSE],
       1, ScanFuel)

ScanY1(matrix, x, y) ==
  Scan(matrix, "y1", x, [pos |-> y, collision |-> FALSE, ended |-> FALSE],
       1, ScanFuel)

ScanY2(matrix, x, y) ==
  Scan(matrix, "y2", x, [pos |-> y, collision |-> FALSE, ended |-> FALSE],
       1, ScanFuel)

\* lines 355-364: the copies of the point pushed when x1 collides
Repeated(point, times) == [k \in 1..times |-> point]

\* lines 347-365: the points pushed after the scans s1 (x1) and s2 (x2)
PushHorizontal(y, s1, s2) ==
  IF (s1.collision \/ s2.collision) /\ s1.pos < s2.pos
  THEN << [x |-> s1.pos, y |-> y, size |-> s2.pos + 1 - s1.pos,
           horizontal |-> TRUE] >>
       \o (IF s1.collision
           THEN Repeated([x |-> s1.pos, y |-> y,
                          size |-> s2.pos + 1 - s1.pos, horizontal |-> TRUE],
                         s2.pos + 1 - s1.pos - 1)
           ELSE <<>>)
  ELSE <<>>

\* lines 254-365: the horizontal points of the empty cell (x, y)
HorizontalPoints(matrix, x, y) ==
  PushHorizontal(y, ScanX1(matrix, y, x), ScanX2(matrix, y, x))

\* lines 463-470: the point pushed after the scans s1 (y1) and s2 (y2)
PushVertical(x, s1, s2) ==
  IF (s1.collision \/ s2.collision) /\ s1.pos < s2.pos
  THEN << [x |-> x, y |-> s1.pos, size |-> s2.pos + 1 - s1.pos,
           horizontal |-> FALSE] >>
  ELSE <<>>

\* lines 370-470: the vertical point of the empty cell (x, y)
VerticalPoints(matrix, x, y) ==
  PushVertical(x, ScanY1(matrix, x, y), ScanY2(matrix, x, y))

\* every scan loop of the pass over this grid stopped
ScansEnded(matrix) ==
  \A x \in 0..(options.width - 1), y \in 0..(options.height - 1) :
    ~Occupied(matrix, x, y) =>
      /\ ScanX1(matrix, y, x).ended
      /\ ScanX2(matrix, y, x).ended
      /\ ScanY1(matrix, x, y).ended
      /\ ScanY2(matrix, x, y).ended

\* lines 249-472: the points of the cell (x, y)
CellPoints(matrix, x, y) ==
  IF ~Occupied(matrix, x, y)
  THEN HorizontalPoints(matrix, x, y) \o VerticalPoints(matrix, x, y)
  ELSE <<>>

\* the points of the cells lo .. hi, the cells counted x outermost, then y
RECURSIVE PointsOfCells(_, _, _)
PointsOfCells(matrix, lo, hi) ==
  IF lo = hi
  THEN CellPoints(matrix, lo \div options.height, lo % options.height)
  ELSE PointsOfCells(matrix, lo, Middle(lo, hi))
         \o PointsOfCells(matrix, Middle(lo, hi) + 1, hi)

\* lines 247-473: the points of a pass
Points(matrix) ==
  PointsOfCells(matrix, 0, options.width * options.height - 1)

\* the points of one size, in the order they were pushed
PointsOfSize(points, size) ==
  LET Keep(point) == point.size = size IN SelectSeq(points, Keep)

\* the points of the sizes hi down to lo
RECURSIVE PointsOfSizes(_, _, _)
PointsOfSizes(points, lo, hi) ==
  IF lo = hi THEN PointsOfSize(points, lo)
  ELSE PointsOfSizes(points, Middle(lo, hi) + 1, hi)
         \o PointsOfSizes(points, lo, Middle(lo, hi))

\* points.sort((a, b) => b.size - a.size): the sort is stable, so the result
\* is the points of the largest size in pushed order, then those of the next
\* size, and so on
SortBySize(points) ==
  PointsOfSizes(points, 0, Max(options.width, options.height))

\* lines 482-512: the matches of a point, from its two end cells
PointMatches(matrix, point) ==
  LET ex == IF point.horizontal THEN point.x + point.size - 1 ELSE point.x
      ey == IF point.horizontal THEN point.y ELSE point.y + point.size - 1
  IN (IF Occupied(matrix, point.x, point.y)
      THEN { <<0, matrix.rows[point.y][point.x][1]>> } ELSE {})
     \cup
     (IF Occupied(matrix, ex, ey)
      THEN { <<point.size - 1, matrix.rows[ey][ex][1]>> } ELSE {})

\* lines 514-530: the ids that fit a point; a size beyond lengths gives none
PointWords(matrix, point) ==
  IF point.size >= Len(options.compilation.lengths) THEN <<>>
  ELSE LET Keep(w) ==
             /\ \A match \in PointMatches(matrix, point) :
                  MatchHolds(match, w)
             /\ w \notin matrix.questions
       IN SelectSeq(NotIgnored(LengthsAt(point.size)), Keep)

\* the letter written without the orientation flag of the cell
FillLetterUnflagged(matrix, word, point, i) ==
  SetCell(matrix,
          IF point.horizontal THEN point.x + i ELSE point.x,
          IF point.horizontal THEN point.y ELSE point.y + i,
          0, word[i + 1])

\* lines 540-548: letter i of the word
FillLetter(matrix, word, point, i) ==
  SetCell(SetCell(matrix,
                  IF point.horizontal THEN point.x + i ELSE point.x,
                  IF point.horizontal THEN point.y ELSE point.y + i,
                  0, word[i + 1]),
          IF point.horizontal THEN point.x + i ELSE point.x,
          IF point.horizontal THEN point.y ELSE point.y + i,
          IF point.horizontal THEN 2 ELSE 1, TRUE)

\* lines 539-549: the letters lo .. hi of the word written along the point
RECURSIVE FillWord(_, _, _, _, _)
FillWord(matrix, word, point, lo, hi) ==
  IF lo > hi THEN matrix
  ELSE IF lo = hi THEN FillLetter(matrix, word, point, lo)
  ELSE CHOOSE last \in
         { FillWord(first, word, point, Middle(lo, hi) + 1, hi) :
             first \in { FillWord(matrix, word, point, lo, Middle(lo, hi)) } }
         : TRUE

\* lines 533-561: the word idx placed on the point
FillPoint(matrix, point, idx) ==
  [FillWord(matrix, options.compilation.words[idx + 1], point, 0,
            Len(options.compilation.words[idx + 1]) - 1)
     EXCEPT
       !.questions = @ \cup {idx},
       !.questionsData =
          Append(@, [idx |-> idx,
                     word |-> options.compilation.words[idx + 1],
                     horizontal |-> IF point.horizontal THEN 1 ELSE 0,
                     x |-> point.x, y |-> point.y])]

\* the positions in points of the points with a word that fits
Fitting(matrix, points) ==
  { k \in 1..Len(points) : Len(PointWords(matrix, points[k])) > 0 }

\* lines 533-536: the word drawn with Math.random; mr is the state
\* Math.random was left in by the draw
DrawWord(words, mr) == words[FloorRandom(mr, Len(words)) + 1]

\* for (let point of points): the first point with a word is filled and the
\* loop is left
FillFirst(matrix, points, fit, mr) ==
  IF fit = {}
  THEN [matrix |-> matrix, mathRandom |-> mr, placed |-> FALSE]
  ELSE [matrix |->
          FillPoint(matrix, points[CHOOSE k \in fit : \A j \in fit : k <= j],
                    DrawWord(PointWords(matrix,
                               points[CHOOSE k \in fit :
                                        \A j \in fit : k <= j]),
                             NextMathRandom(mr))),
        mathRandom |-> NextMathRandom(mr), placed |-> TRUE]

\* one round of while (continueIteration)
FillPass(matrix, mr) ==
  CHOOSE pass \in
    { FillFirst(matrix, points, Fitting(matrix, points), mr) :
        points \in { SortBySize(Points(matrix)) } } : TRUE

\* continueIteration never reset to false
ContinueAlways(pass) == TRUE

\* continueIteration after a pass
ContinueIteration(pass) == pass.placed

\* the rounds of while (continueIteration) followed before the loop is
\* reported as not ended: every round but the last fills an empty cell
PassFuel == options.width * options.height + 2

\* one round of while (continueIteration) on one grid, the round-th
Pass(s, round) ==
  IF s.ended THEN s
  ELSE CHOOSE next \in
         { [matrix |-> pass.matrix, mathRandom |-> pass.mathRandom,
            passes |-> round, ended |-> ~ContinueIteration(pass),
            scansEnded |-> s.scansEnded /\ ScansEnded(s.matrix)] :
             pass \in { FillPass(s.matrix, s.mathRandom) } } : TRUE

\* the rounds lo .. hi of while (continueIteration)
RECURSIVE Passes(_, _, _)
Passes(s, lo, hi) ==
  IF lo = hi THEN Pass(s, lo)
  ELSE CHOOSE last \in
         { Passes(first, Middle(lo, hi) + 1, hi) :
             first \in { Passes(s, lo, Middle(lo, hi)) } } : TRUE

\* the while loop of lines 243-567 on one grid; ended is FALSE when the loop
\* is still running after PassFuel rounds
FillMatrix(matrix, mr) ==
  Passes([matrix |-> matrix, mathRandom |-> mr, passes |-> 0,
          ended |-> FALSE, scansEnded |-> TRUE],
         1, PassFuel)

\* the body of matrices.forEach for the grid k
Fill(s, k) ==
  CHOOSE next \in
    { [matrices |-> [s.matrices EXCEPT ![k] = f.matrix],
       mathRandom |-> f.mathRandom,
       info |-> [passes |-> Append(s.info.passes, f.passes),
                 ended |-> s.info.ended /\ f.ended,
                 scansEnded |-> s.info.scansEnded /\ f.scansEnded]] :
        f \in { FillMatrix(s.matrices[k], s.mathRandom) } } : TRUE

\* matrices.forEach of lines 240-568 for the grids lo .. hi
RECURSIVE FillAll(_, _, _)
FillAll(s, lo, hi) ==
  IF lo > hi THEN s
  ELSE IF lo = hi THEN Fill(s, lo)
  ELSE CHOOSE last \in
         { FillAll(first, Middle(lo, hi) + 1, hi) :
             first \in { FillAll(s, lo, Middle(lo, hi)) } } : TRUE

\* line 570: what fillEmptySpaces returns from the filled grids
SelectFilled(f, batch, chosen) ==
  [mathRandom |-> f.mathRandom,
   solutions |-> batch,
   selected |-> chosen,
   returned |-> [j \in 1..Len(chosen) |-> batch[chosen[j]]],
   info |-> f.info]

\* fillEmptySpaces(matrices) with Math.random in state mr
fillEmptySpaces(input, mr) ==
  CHOOSE out \in
    { SelectFilled(b[1], b[2],
                   selectSolutions(b[2], options.selectedSolutions)) :
        b \in { << f, [k \in 1..Len(input) |-> Annotate(f.matrices[k])] >> :
                  f \in { FillAll([matrices |-> input, mathRandom |-> mr,
                                   info |-> [passes |-> <<>>,
                                             ended |-> TRUE,
                                             scansEnded |-> TRUE]],
                                  1, Len(input)) } } } : TRUE

-----------------------------------------------------------------------------
(* The generators the model constructs *)

\* two dictionaries; each line is a word with its synonyms and descriptions
Dictionary1 ==
  << << <<"A", "B">>, <<"a", " ", "b">> >>,
     << <<"B", "A">>, <<"a", "b">> >>,
     << <<"A", "A">>, <<"B", "B">> >>,
     << <<"A", "B", "A">>, <<"a", " ", "b">> >>,
     << <<"B", "A", "B">>, <<"A">> >> >>

Dictionary2 ==
  << << <<"A", "A", "B">>, <<"B", "B", "A">>, <<"Á", "B">> >>,
     << <<"A", "B", "B", "A">>, <<"b", " ", "a">> >>,
     << <<"B", "A", "A">>, <<"A", "B">> >> >>

\* a dictionary of three-letter words only
Dictionary3 ==
  << << <<"C", "A", "T">>, <<"a", " ", "p", "e", "t">> >>,
     << <<"D", "O", "G">>, <<"a", " ", "p", "e", "t">> >>,
     << <<"C", "O", "T">>, <<"T", "A", "G">> >>,
     << <<"G", "O", "D">> >> >>

\* null, and the value of a property that is not there
Null == [null |-> TRUE]

\* the static ConwordsGenerator.options (lines 13-27)
DefaultOptions ==
  [compilation |-> Null, width |-> 24, height |-> 22, emptySpace |-> "·",
   wordsPerIteration |-> 2, solutionsPerIteration |-> 33,
   selectedSolutions |-> 22, wordsOnBorder |-> <<9, 10>>,
   minimumLengthFactor |-> 1, finishAt |-> 600]

\* the options objects the caller gives to the constructor
Configurations ==
  { [compilation |-> compile(<<Dictionary1, Dictionary2>>),
     width |-> 4, height |-> 4,
     wordsPerIteration |-> 2, solutionsPerIteration |-> 3,
     selectedSolutions |-> 2, wordsOnBorder |-> <<0, 1>>, finishAt |-> 4],
    [compilation |-> compile(<<Dictionary1, Dictionary2>>),
     width |-> 5, height |-> 4,
     wordsPerIteration |-> 1, solutionsPerIteration |-> 3,
     selectedSolutions |-> 2, wordsOnBorder |-> <<1, 4>>, finishAt |-> 3],
    [compilation |-> compile(<<>>),
     width |-> 4, height |-> 4,
     solutionsPerIteration |-> 3,
     selectedSolutions |-> 2, wordsOnBorder |-> <<0, 1>>, finishAt |-> 4],
    [compilation |-> compile(<<Dictionary3>>),
     width |-> 5, height |-> 5,
     wordsPerIteration |-> 1, solutionsPerIteration |-> 3,
     selectedSolutions |-> 2],
    [width |-> 4, height |-> 4],
    [compilation |-> Null, width |-> 4, height |-> 4] }

\* options.compilation of an options object
CompilationOf(given) ==
  IF "compilation" \in DOMAIN given THEN given.compilation ELSE Null

\* an assignment that spreads the two objects in the other order
DefaultsWin(current, given) ==
  [k \in DOMAIN current \cup DOMAIN given |->
     IF k \in DOMAIN current THEN current[k] ELSE given[k]]

\* #configure(options): { ...this.options, ...options }
configure(current, given) ==
  [k \in DOMAIN current \cup DOMAIN given |->
     IF k \in DOMAIN given THEN given[k] ELSE current[k]]

\* states the process may have left Math.random in
MathRandomStates == {1201, 3358}

-----------------------------------------------------------------------------
(* The specification: a generator is constructed, generate is called once  *)
(* with a seed, and then iterate and fillEmptySpaces are called on what    *)
(* the previous call returned.  twin is the same program run again in      *)
(* another process with the same options, seed and calls.                  *)

Init ==
  /\ options = DefaultOptions
  /\ ignored \in {{}, {3}}
  /\ seed = <<>>
  /\ random = 0
  /\ mathRandom \in MathRandomStates
  /\ matrices = <<>>
  /\ solutions = <<>>
  /\ selected = <<>>
  /\ lastCall = "none"
  /\ raised = FALSE
  /\ iterateInfo = [before |-> <<>>, after |-> <<>>, refs |-> <<>>]
  /\ fillInfo = [passes |-> <<>>, ended |-> TRUE, scansEnded |-> TRUE]
  /\ calls = 0
  /\ \E mr \in MathRandomStates :
       twin = [matrices |-> <<>>, random |-> 0, mathRandom |-> mr,
               raised |-> FALSE]
  /\ compiler = [dictionary |-> <<>>, phase |-> "input",
                 compilation |-> <<>>, reordered |-> <<>>,
                 recompilation |-> <<>>]
  /\ placer = [phase |-> "idle", calls |-> 0, attempts |-> 0,
               before |-> <<>>, s |-> <<>>]

\* new ConwordsGenerator(given): without a compilation the constructor
\* throws and there is no generator; with one, this.options is the defaults
\* overridden by the options given
Construct(given) ==
  /\ lastCall = "none"
  /\ lastCall' = "constructor"
  /\ IF CompilationOf(given) = Null
     THEN /\ raised' = TRUE
          /\ twin' = [twin EXCEPT !.raised = TRUE]
          /\ UNCHANGED options
     ELSE /\ options' = configure(configure(EmptyMap, DefaultOptions), given)
          /\ UNCHANGED <<raised, twin>>
  /\ UNCHANGED <<ignored, seed, random, mathRandom, matrices, solutions,
                 selected, iterateInfo, fillInfo, calls, compiler,
                 placer>>

\* generate(seedData): the caller holds the new grid
Generate(seedData) ==
  /\ lastCall = "constructor"
  /\ ~raised
  /\ matrices' = <<NewMatrix>>
  /\ seed' = NumberToString(seedData)
  /\ random' = SeedRandom(seedData, mathRandom)
  /\ twin' = [twin EXCEPT !.matrices = <<NewMatrix>>,
                          !.random = SeedRandom(seedData, twin.mathRandom)]
  /\ lastCall' = "generate"
  /\ UNCHANGED <<options, ignored, mathRandom, solutions, selected, raised,
                 iterateInfo, fillInfo, calls, compiler,
                 placer>>

\* matrices = generator.iterate(matrices); a call that throws leaves the
\* caller with what it had
Iterate ==
  /\ lastCall \in {"generate", "iterate", "fillEmptySpaces"}
  /\ ~raised
  /\ calls < MaxCalls
  /\ \E it \in { iterate(matrices, random) },
        tw \in { iterate(twin.matrices, twin.random) } :
        /\ matrices' = IF it.threw THEN matrices ELSE it.returned
        /\ random' = it.random
        /\ solutions' = it.solutions
        /\ selected' = it.selected
        /\ raised' = it.threw
        /\ iterateInfo' = [before |-> matrices, after |-> it.after,
                           refs |-> it.refs]
        /\ twin' = [twin EXCEPT
                      !.matrices = IF tw.threw THEN @ ELSE tw.returned,
                      !.random = tw.random,
                      !.raised = tw.threw]
  /\ lastCall' = "iterate"
  /\ calls' = calls + 1
  /\ UNCHANGED <<options, ignored, seed, mathRandom, fillInfo, compiler,
                 placer>>

\* matrices = generator.fillEmptySpaces(matrices), the grid of generate
\* passed as [matrix]
FillEmptySpaces ==
  /\ lastCall \in {"generate", "iterate", "fillEmptySpaces"}
  /\ ~raised
  /\ calls < MaxCalls
  /\ \E f \in { fillEmptySpaces(matrices, mathRandom) },
        tw \in { fillEmptySpaces(twin.matrices, twin.mathRandom) } :
        /\ matrices' = f.returned
        /\ mathRandom' = f.mathRandom
        /\ solutions' = f.solutions
        /\ selected' = f.selected
        /\ fillInfo' = f.info
        /\ twin' = [twin EXCEPT !.matrices = tw.returned,
                                !.mathRandom = tw.mathRandom]
  /\ lastCall' = "fillEmptySpaces"
  /\ calls' = calls + 1
  /\ UNCHANGED <<options, ignored, seed, random, raised, iterateInfo,
                 compiler,
                 placer>>

Next ==
  \/ \E given \in Configurations : Construct(given)
  \/ \E seedData \in 0..(NumSeeds - 1) : Generate(seedData)
  \/ Iterate
  \/ FillEmptySpaces

Spec == Init /\ [][Next]_vars

-----------------------------------------------------------------------------
(* compile called on its own: a dictionary is put together line by line,    *)
(* compiled, and compiled again with the strings of one line in another     *)
(* order.                                                                    *)

\* the lines a dictionary is made of: a word with its descriptions
Lines ==
  { << <<"C", "A", "T">>, <<"f", "e", "l", "i", "n", "e">> >>,
    << <<"D", "O", "G">>, <<"c", "a", "n", "i", "n", "e">> >>,
    << <<"C", "A", "T">>, <<"D", "O", "G">>, <<"a", " ", "p", "e", "t">> >>,
    << <<"A">>, <<"C", "O", "T">>, <<"C", "A", "T">> >>,
    << <<"G", "O">>, <<"a", " ", "g", "a", "m", "e">> >>,
    << <<"T", "O", "D", "O">>, <<"D", "O", "G">> >>,
    << <<"G", "O", "D">> >> }

\* the orders the strings of a line of n strings can be put in
Orders(n) ==
  { order \in [1..n -> 1..n] :
      \A a, b \in 1..n : a # b => order[a] # order[b] }

\* the dictionary with the strings of the line j in the order given
Reorder(dictionary, j, order) ==
  [dictionary EXCEPT
     ![j] = [k \in 1..Len(dictionary[j]) |-> dictionary[j][order[k]]]]

CompileInit ==
  /\ Init
  /\ ignored = {}
  /\ mathRandom = twin.mathRandom

\* the caller adds a line to the dictionary
AddLine(line) ==
  /\ compiler.phase = "input"
  /\ Len(compiler.dictionary) < MaxLines
  /\ compiler' = [compiler EXCEPT !.dictionary = Append(@, line)]
  /\ UNCHANGED <<options, ignored, seed, random, mathRandom, matrices,
                 solutions, selected, lastCall, raised, iterateInfo,
                 fillInfo, calls, twin, placer>>

\* compilation = await ConwordsGenerator.compile([dictionary])
Compile ==
  /\ compiler.phase = "input"
  /\ compiler' = [compiler EXCEPT
                    !.phase = "compiled",
                    !.compilation = compile(<<compiler.dictionary>>)]
  /\ UNCHANGED <<options, ignored, seed, random, mathRandom, matrices,
                 solutions, selected, lastCall, raised, iterateInfo,
                 fillInfo, calls, twin, placer>>

\* compile called again on the dictionary with the strings of the line j in
\* another order, or in the same order
CompileReordered(j, order) ==
  /\ compiler.phase = "compiled"
  /\ compiler' = [compiler EXCEPT
                    !.phase = "recompiled",
                    !.reordered = Reorder(compiler.dictionary, j, order),
                    !.recompilation =
                       compile(<<Reorder(compiler.dictionary, j, order)>>)]
  /\ UNCHANGED <<options, ignored, seed, random, mathRandom, matrices,
                 solutions, selected, lastCall, raised, iterateInfo,
                 fillInfo, calls, twin, placer>>

CompileNext ==
  \/ \E line \in Lines : AddLine(line)
  \/ Compile
  \/ \E j \in 1..Len(compiler.dictionary) :
       \E order \in Orders(Len(compiler.dictionary[j])) :
         CompileReordered(j, order)

CompileSpec == CompileInit /\ [][CompileNext]_vars

-----------------------------------------------------------------------------
(* The placer on its own: the grid of generate is cloned as iterate does,   *)
(* and #generateQuestion is called on the clone again and again, as the     *)
(* loop over wordsPerIteration and the later calls of iterate on that       *)
(* lineage do.  Each call is followed round by round of its while (true).   *)

PlacerInit ==
  /\ Init
  /\ mathRandom = twin.mathRandom

\* the round s reaches line 928: a length is drawn and a position is tried
Attempts(s) ==
  /\ ~s.returned
  /\ ~s.threw
  /\ ~s.matrix.finish
  /\ ~(LastTry(s) /\ ~(BorderWanted /\ ~s.matrix.borde))

\* matrixClone = this.#generateQuestion(matrixClone): the call begins, on
\* the clone of the grid of generate or on what the call before returned
PlacerCall ==
  /\ lastCall = "generate"
  /\ placer.calls < MaxPlacerCalls
  /\ \/ placer.phase = "idle"
     \/ placer.phase = "running" /\ placer.s.returned
  /\ \E m \in { IF placer.phase = "idle" THEN CloneMatrix(matrices[1])
                ELSE placer.s.matrix } :
       placer' = [phase |-> "running",
                  calls |-> placer.calls + 1,
                  attempts |-> 0,
                  before |-> m,
                  s |-> [matrix |-> m,
                         random |-> IF placer.phase = "idle" THEN random
                                    ELSE placer.s.random,
                         intento |-> 0, placed |-> FALSE, threw |-> FALSE,
                         returned |-> FALSE]]
  /\ UNCHANGED <<options, ignored, seed, random, mathRandom, matrices,
                 solutions, selected, lastCall, raised, iterateInfo,
                 fillInfo, calls, twin, compiler>>

\* one round of the while (true) of the call; the rounds are counted up to
\* one more than a call may make
PlacerRound ==
  /\ placer.phase = "running"
  /\ ~placer.s.returned
  /\ ~placer.s.threw
  /\ placer.attempts <= 2 * options.finishAt
  /\ placer' = [placer EXCEPT
                  !.s = Round(placer.s),
                  !.attempts = IF Attempts(placer.s) THEN @ + 1 ELSE @]
  /\ UNCHANGED <<options, ignored, seed, random, mathRandom, matrices,
                 solutions, selected, lastCall, raised, iterateInfo,
                 fillInfo, calls, twin, compiler>>

\* a dictionary with words that have an accented letter
Dictionary4 ==
  << << <<"M", "Á", "S">>, <<"m", "o", "r", "e">> >>,
     << <<"S", "Í">>, <<"y", "e", "s">> >>,
     << <<"M", "E", "S">>, <<"a", " ", "m", "o", "n", "t", "h">> >> >>

\* more options objects for the placer.  With the first, two words of two
\* letters cover exactly the fraction wordsOnBorder of the perimeter
\* 2 * (4 + 4); the second has the words with accented letters
PlacerConfigurations ==
  { [compilation |-> compile(<<Dictionary1, Dictionary2>>),
     width |-> 4, height |-> 4,
     wordsPerIteration |-> 1, solutionsPerIteration |-> 3,
     selectedSolutions |-> 2, wordsOnBorder |-> <<1, 4>>, finishAt |-> 3],
    [compilation |-> compile(<<Dictionary4>>),
     width |-> 4, height |-> 4,
     wordsPerIteration |-> 1, solutionsPerIteration |-> 3,
     selectedSolutions |-> 2, wordsOnBorder |-> <<0, 1>>, finishAt |-> 4] }

PlacerNext ==
  \/ \E given \in Configurations \cup PlacerConfigurations : Construct(given)
  \/ \E seedData \in 0..(NumSeeds - 1) : Generate(seedData)
  \/ PlacerCall
  \/ PlacerRound

PlacerSpec == PlacerInit /\ [][PlacerNext]_vars

-----------------------------------------------------------------------------
(* Properties *)

\* the grids the caller can observe: those it holds and the batch the last
\* selection was made from
Grids ==
  { matrices[k] : k \in 1..Len(matrices) }
    \cup { solutions[k] : k \in 1..Len(solutions) }

\* the offsets of a placement
Offsets(question) == 0..(Len(question.word) - 1)

\* the cell a placement covers at offset i, as <<x, y>>
CellAt(question, i) ==
  << SpanX(question.horizontal, question.x, i),
     SpanY(question.horizontal, question.y, i) >>

\* the cells a placement covers
CellsOf(question) == { CellAt(question, i) : i \in Offsets(question) }

\* the pairs <<h, v>> of a horizontal and a vertical placement of a grid
\* that cover a common cell
Crossings(matrix) ==
  { p \in (1..Len(matrix.questionsData)) \X (1..Len(matrix.questionsData)) :
      /\ matrix.questionsData[p[1]].horizontal = 1
      /\ matrix.questionsData[p[2]].horizontal = 0
      /\ CellsOf(matrix.questionsData[p[1]])
           \cap CellsOf(matrix.questionsData[p[2]]) # {} }

\* the pairs of different placements of a grid with the same orientation
Parallels(matrix) ==
  { p \in (1..Len(matrix.questionsData)) \X (1..Len(matrix.questionsData)) :
      /\ p[1] # p[2]
      /\ matrix.questionsData[p[1]].horizontal
           = matrix.questionsData[p[2]].horizontal }

\* C1: in every grid the caller can observe, at every cell covered by a
\* horizontal and a vertical placement, the character of each of the two
\* words at its offset into the cell is the letter stored in the cell
C1_CrossingLettersAgree ==
  \A matrix \in Grids :
    \A p \in Crossings(matrix) :
      \A k \in {p[1], p[2]} :
        \A i \in Offsets(matrix.questionsData[k]) :
          CellAt(matrix.questionsData[k], i)
              \in CellsOf(matrix.questionsData[p[1]])
                    \cap CellsOf(matrix.questionsData[p[2]])
            => matrix.questionsData[k].word[i + 1]
                 = matrix.rows[CellAt(matrix.questionsData[k], i)[2]]
                              [CellAt(matrix.questionsData[k], i)[1]][1]

\* a grid the caller holds after fillEmptySpaces placed a word has a crossing
C1_Witness ==
  /\ lastCall = "fillEmptySpaces"
  /\ \E k \in 1..Len(fillInfo.passes) : fillInfo.passes[k] > 1
  /\ \E matrix \in Grids : Crossings(matrix) # {}

\* C2: in every grid the caller can observe, no cell is covered by two
\* placements of the same orientation
C2_NoParallelOverlap ==
  \A matrix \in Grids :
    \A p \in Parallels(matrix) :
      CellsOf(matrix.questionsData[p[1]])
        \cap CellsOf(matrix.questionsData[p[2]]) = {}

\* a grid holds two placements of the same orientation on the same line
C2_Witness ==
  \E matrix \in Grids :
    \E p \in Parallels(matrix) :
      IF matrix.questionsData[p[1]].horizontal = 1
      THEN matrix.questionsData[p[1]].y = matrix.questionsData[p[2]].y
      ELSE matrix.questionsData[p[1]].x = matrix.questionsData[p[2]].x

\* C3: every call of fillEmptySpaces returns: each of its scan loops ended,
\* and on each grid the loop of passes ended, after at most one pass for
\* each cell and one more
C3_FillTerminates ==
  /\ fillInfo.ended
  /\ fillInfo.scansEnded
  /\ \A k \in 1..Len(fillInfo.passes) :
       fillInfo.passes[k] <= options.width * options.height + 1

\* fillEmptySpaces returned after a pass that placed a word, a pass that
\* followed it, and on another grid a pass that placed nothing
C3_Witness ==
  /\ lastCall = "fillEmptySpaces"
  /\ \E k \in 1..Len(fillInfo.passes) : fillInfo.passes[k] > 1
  /\ \E k \in 1..Len(fillInfo.passes) : fillInfo.passes[k] = 1

\* C4: a selection keeps at most selectedSolutions grids of the batch, and
\* these are the grids the call returns
C4_AtMostRequested ==
  /\ Len(selected) <= options.selectedSolutions
  /\ (lastCall \in {"iterate", "fillEmptySpaces"} /\ ~raised)
       => Len(matrices) = Len(selected)

\* the batch held more grids of different hashes than were requested
C4_Witness ==
  /\ lastCall = "iterate"
  /\ Cardinality({ solutions[k].hash : k \in 1..Len(solutions) })
       > options.selectedSolutions
  /\ Len(selected) = options.selectedSolutions

\* C5: no two grids a selection keeps have the same hash, and a grid it
\* keeps is the first of the batch with its hash
C5_NoDuplicateHashes ==
  /\ \A a, b \in 1..Len(selected) :
       a # b => solutions[selected[a]].hash # solutions[selected[b]].hash
  /\ \A a \in 1..Len(selected) :
       \A j \in 1..(selected[a] - 1) :
         solutions[j].hash # solutions[selected[a]].hash

\* two grids of the batch had the same hash and the first of them was kept
C5_Witness ==
  \E i, j \in 1..Len(solutions) :
    /\ i < j
    /\ solutions[i].hash = solutions[j].hash
    /\ \E a \in 1..Len(selected) : selected[a] = i

\* C6: the score of a grid of the batch is the score function of its count
\* of filled cells, its crossings and its isolated words; the grids a
\* selection keeps are in non-increasing order of score, and of two kept
\* grids of equal score the one first in the batch comes first
C6_SortedByScore ==
  /\ \A k \in 1..Len(solutions) :
       /\ solutions[k].fillingPercentage
            = Cardinality({ c \in (0..(options.width - 1))
                                    \X (0..(options.height - 1)) :
                              solutions[k].rows[c[2]][c[1]][1]
                                # options.emptySpace })
       /\ solutions[k].score
            = << solutions[k].fillingPercentage * 4
                   + 2 * solutions[k].intersections,
                 1 + solutions[k].isolatedWords * 4 >>
  /\ \A a, b \in 1..Len(selected) :
       a < b =>
         /\ solutions[selected[a]].score[1] * solutions[selected[b]].score[2]
              >= solutions[selected[b]].score[1]
                   * solutions[selected[a]].score[2]
         /\ solutions[selected[a]].score[1] * solutions[selected[b]].score[2]
              = solutions[selected[b]].score[1]
                  * solutions[selected[a]].score[2]
            => selected[a] < selected[b]

\* the selection moved a grid of higher score before one that preceded it
\* in the batch
C6_Witness ==
  /\ Len(selected) = 2
  /\ selected[1] > selected[2]
  /\ solutions[selected[1]].score # solutions[selected[2]].score

C8_FillDeterministic ==
  [][(lastCall' = "fillEmptySpaces" /\ calls' = calls + 1
        /\ twin.matrices = matrices /\ twin.random = random)
       => twin.matrices' = matrices']_vars

\* C9: iterate leaves the grids it was given as they were, every candidate
\* is an object of its own, none of them one of the grids given, and no two
\* cells of a candidate are one array
C9_InputsUntouched ==
  /\ iterateInfo.after = iterateInfo.before
  /\ \A a, b \in 1..Len(iterateInfo.refs) :
       a # b => iterateInfo.refs[a] # iterateInfo.refs[b]
  /\ \A a \in 1..Len(iterateInfo.refs) :
       iterateInfo.refs[a] > Len(iterateInfo.before)
  /\ lastCall = "iterate" =>
       \A k \in 1..Len(solutions) : ~solutions[k].shared

\* iterate was given two grids, made three candidates of them, and placed a
\* word on one
C9_Witness ==
  /\ lastCall = "iterate"
  /\ Len(iterateInfo.before) = 2
  /\ Len(iterateInfo.refs) = 3
  /\ \E k \in 1..Len(solutions) :
       \A j \in 1..Len(iterateInfo.before) :
         Len(solutions[k].questionsData)
           > Len(iterateInfo.before[j].questionsData)

\* C10: no call of iterate ends by throwing
C10_IterateNeverRaises == lastCall = "iterate" => ~raised

\* the dictionary [["CAT", "feline"], ["DOG", "canine"]]
CatDog ==
  << << <<"C", "A", "T">>, <<"f", "e", "l", "i", "n", "e">> >>,
     << <<"D", "O", "G">>, <<"c", "a", "n", "i", "n", "e">> >> >>

\* the members of an array
Members(arr) == { arr[k] : k \in 1..Len(arr) }

\* the ids in the length bucket len of a compilation, none when the bucket
\* is undefined
Bucket(compilation, len) ==
  IF len + 1 \in DOMAIN compilation.lengths
  THEN Members(compilation.lengths[len + 1]) ELSE {}

\* the ids in the letter index entry (i, c) of a compilation, none when the
\* entry is undefined
LetterEntry(compilation, i, c) ==
  IF <<i, c>> \in DOMAIN compilation.letters
  THEN Members(compilation.letters[<<i, c>>]) ELSE {}

\* C11 as stated: compiling [["CAT", "feline"], ["DOG", "canine"]] yields
\* words = ["CAT", "DOG"], the length bucket 3 = {0, 1}, the letter index
\* entry (0, "C") = {0} and the entry (0, "D") = {1}
C11_CatDogAsStated ==
  (compiler.phase = "compiled" /\ compiler.dictionary = CatDog) =>
    /\ compiler.compilation.words = << <<"C", "A", "T">>, <<"D", "O", "G">> >>
    /\ Bucket(compiler.compilation, 3) = {0, 1}
    /\ LetterEntry(compiler.compilation, 0, "C") = {0}
    /\ LetterEntry(compiler.compilation, 0, "D") = {1}

\* C11: compiling [["CAT", "feline"], ["DOG", "canine"]] yields
\* words = ["CAT", "feline", "DOG", "canine"], the strings without a space
\* in the order met; the length buckets 0 to 3 with bucket 3 = [0, 2] and
\* the others empty; the letter index entry (0, "C") = {0} and the entry
\* (0, "D") = {2}
C11_CatDog ==
  (compiler.phase = "compiled" /\ compiler.dictionary = CatDog) =>
    /\ compiler.compilation.words
         = << <<"C", "A", "T">>, <<"f", "e", "l", "i", "n", "e">>,
              <<"D", "O", "G">>, <<"c", "a", "n", "i", "n", "e">> >>
    /\ compiler.compilation.lengths = << <<>>, <<>>, <<>>, <<0, 2>> >>
    /\ LetterEntry(compiler.compilation, 0, "C") = {0}
    /\ LetterEntry(compiler.compilation, 0, "D") = {2}

\* the dictionary [["CAT", "feline"], ["DOG", "canine"]] was compiled
C11_Witness ==
  /\ compiler.phase = "compiled"
  /\ compiler.dictionary = CatDog
  /\ Len(compiler.compilation.words) = 4

\* C16: a constructor call without a compilation throws and leaves no
\* generator to call: nothing is configured and nothing happens after it; a
\* call with a compilation does not throw, and this.options then holds
\* every option given and the default of every option not given
C16_ConstructorOptions ==
  [][/\ ~(raised /\ lastCall = "constructor")
     /\ \A given \in Configurations :
          Construct(given) =>
            IF CompilationOf(given) = Null
            THEN raised' /\ options' = DefaultOptions /\ matrices' = <<>>
            ELSE /\ ~raised'
                 /\ \A k \in DOMAIN given : options'[k] = given[k]
                 /\ \A k \in DOMAIN DefaultOptions \ DOMAIN given :
                       options'[k] = DefaultOptions[k]]_vars

\* a generator constructed with a width and height of its own and the
\* default finishAt and emptySpace
C16_Witness ==
  /\ lastCall = "constructor"
  /\ ~raised
  /\ options.width = 5
  /\ options.height = 5
  /\ options.finishAt = DefaultOptions.finishAt
  /\ options.emptySpace = DefaultOptions.emptySpace

\* a constructor call that threw
C16_Thrown == lastCall = "constructor" /\ raised

\* the compilation has words of three letters only
ThreeLetterWords ==
  /\ Len(options.compilation.lengths) = 4
  /\ options.compilation.lengths[4] # <<>>
  /\ \A len \in 1..3 : options.compilation.lengths[len] = <<>>

\* the caller holds what the first call of iterate returned for the grid of
\* generate, 5 by 5, with three-letter words and wordsPerIteration 1
OneWordIteration ==
  /\ lastCall = "iterate"
  /\ calls = 1
  /\ ~raised
  /\ options.width = 5
  /\ options.height = 5
  /\ options.wordsPerIteration = 1
  /\ ThreeLetterWords

\* C12: every grid returned by one call of iterate with wordsPerIteration 1
\* on the 5 by 5 grid of generate, the compilation holding three-letter
\* words only, has exactly one placement, horizontal or vertical, and all
\* its cells are cells of the grid
C12_OnePlacementInside ==
  OneWordIteration =>
    /\ matrices # <<>>
    /\ \A k \in 1..Len(matrices) :
         /\ Len(matrices[k].questionsData) = 1
         /\ matrices[k].questionsData[1].horizontal \in {0, 1}
         /\ Len(matrices[k].questionsData[1].word) = 3
         /\ CellsOf(matrices[k].questionsData[1])
              \subseteq (0..4) \X (0..4)

\* one call of iterate returned a grid with a horizontal and a grid with a
\* vertical placement
C12_Witness ==
  /\ OneWordIteration
  /\ \E k \in 1..Len(matrices) : matrices[k].questionsData[1].horizontal = 1
  /\ \E k \in 1..Len(matrices) : matrices[k].questionsData[1].horizontal = 0

\* the compiled dictionary is empty and the caller holds grids without
\* placements
EmptyGridsEmptyDictionary ==
  /\ options.compilation.words = <<>>
  /\ options.compilation.lengths = <<>>
  /\ matrices # <<>>
  /\ \A k \in 1..Len(matrices) : matrices[k].questionsData = <<>>

\* C13: fillEmptySpaces called with grids without placements, the compiled
\* dictionary being empty, returns these grids as they were: as many grids,
\* no placement added, the same rows with every cell empty, and a
\* fillingPercentage of 0
C13_FillLeavesEmptyGrid ==
  [][(/\ lastCall' = "fillEmptySpaces"
      /\ calls' = calls + 1
      /\ EmptyGridsEmptyDictionary) =>
       /\ Len(matrices') = Len(matrices)
       /\ \A k \in 1..Len(matrices) :
            /\ matrices'[k].questionsData = <<>>
            /\ matrices'[k].questions = {}
            /\ matrices'[k].rows = matrices[k].rows
            /\ \A y \in 0..(options.height - 1) :
                 \A x \in 0..(options.width - 1) :
                   matrices'[k].rows[y][x] = EmptyCell
            /\ matrices'[k].fillingPercentage = 0]_vars

\* fillEmptySpaces has returned the empty grid of generate, the compiled
\* dictionary being empty
C13_Witness ==
  /\ lastCall = "fillEmptySpaces"
  /\ calls = 1
  /\ EmptyGridsEmptyDictionary
  /\ fillInfo.passes # <<>>

\* the ids of the words of a compilation
WordIds(compilation) == 0..(Len(compilation.words) - 1)

\* the string of the word id w of a compilation
WordOf(compilation, w) == compilation.words[w + 1]

\* the lengths to look at for the word id w: those with a bucket, and its own
LengthsFor(compilation, w) ==
  (0..Len(compilation.lengths)) \cup {Len(WordOf(compilation, w))}

\* the keys (i, c) to look at for the word id w: those with an entry, and
\* those of its own characters
KeysFor(compilation, w) ==
  DOMAIN compilation.letters
    \cup { <<i, WordOf(compilation, w)[i + 1]>> :
             i \in 0..(Len(WordOf(compilation, w)) - 1) }

\* the character at position i of the word id w is c
HasLetter(compilation, w, i, c) ==
  /\ i < Len(WordOf(compilation, w))
  /\ WordOf(compilation, w)[i + 1] = c

\* C14 as stated: after compile, for every word id w, every length len and
\* every (position i, letter c), w is in the length bucket len iff the
\* string of w has length len, and w is in the letter index entry (i, c) iff
\* the character at position i of w is c
C14_IndexConsistentAsStated ==
  compiler.phase = "compiled" =>
    \A w \in WordIds(compiler.compilation) :
      /\ \A len \in LengthsFor(compiler.compilation, w) :
           w \in Bucket(compiler.compilation, len)
             <=> Len(WordOf(compiler.compilation, w)) = len
      /\ \A key \in KeysFor(compiler.compilation, w) :
           w \in LetterEntry(compiler.compilation, key[1], key[2])
             <=> HasLetter(compiler.compilation, w, key[1], key[2])

\* C14: after compile, for every word id w, every length len and every
\* (position i, letter c), w is in the length bucket len iff the string of w
\* matches the index pattern and has length len, and w is in the letter
\* index entry (i, c) iff the string of w matches the index pattern and its
\* character at position i is c
C14_IndexConsistent ==
  compiler.phase = "compiled" =>
    \A w \in WordIds(compiler.compilation) :
      /\ \A len \in LengthsFor(compiler.compilation, w) :
           w \in Bucket(compiler.compilation, len)
             <=> /\ Accepted(WordOf(compiler.compilation, w))
                 /\ Len(WordOf(compiler.compilation, w)) = len
      /\ \A key \in KeysFor(compiler.compilation, w) :
           w \in LetterEntry(compiler.compilation, key[1], key[2])
             <=> /\ Accepted(WordOf(compiler.compilation, w))
                 /\ HasLetter(compiler.compilation, w, key[1], key[2])

\* a compilation with a word that matches the index pattern, a word that
\* does not, and a bucket of two ids
C14_Witness ==
  /\ compiler.phase = "compiled"
  /\ \E w \in WordIds(compiler.compilation) :
       Accepted(WordOf(compiler.compilation, w))
  /\ \E w \in WordIds(compiler.compilation) :
       ~Accepted(WordOf(compiler.compilation, w))
  /\ \E len \in 1..Len(compiler.compilation.lengths) :
       Len(compiler.compilation.lengths[len]) = 2

\* the lengths with a bucket in the first or in the second compilation
BothLengths ==
  0..Max(Len(compiler.compilation.lengths),
         Len(compiler.recompilation.lengths))

\* the keys with an entry in the first or in the second compilation
BothKeys ==
  DOMAIN compiler.compilation.letters
    \cup DOMAIN compiler.recompilation.letters

\* the strings of the ids in the length bucket len of a compilation
BucketWords(compilation, len) ==
  { WordOf(compilation, w) : w \in Bucket(compilation, len) }

\* the strings of the ids in the letter index entry (i, c) of a compilation
EntryWords(compilation, i, c) ==
  { WordOf(compilation, w) : w \in LetterEntry(compilation, i, c) }

\* C15 as stated: compiling the same dictionaries again, or with the strings
\* of an entry permuted, yields the same length-bucket membership and the
\* same letter-index membership: the same ids in every bucket and in every
\* entry
C15_OrderInsensitiveAsStated ==
  compiler.phase = "recompiled" =>
    /\ \A len \in BothLengths :
         Bucket(compiler.recompilation, len)
           = Bucket(compiler.compilation, len)
    /\ \A key \in BothKeys :
         LetterEntry(compiler.recompilation, key[1], key[2])
           = LetterEntry(compiler.compilation, key[1], key[2])

\* C15: compiling the same dictionaries again yields the same compilation;
\* compiling them with the strings of an entry permuted yields length
\* buckets and letter index entries that hold the same word strings, while
\* the ids of these words may differ
C15_OrderInsensitive ==
  compiler.phase = "recompiled" =>
    /\ compiler.reordered = compiler.dictionary
         => compiler.recompilation = compiler.compilation
    /\ \A len \in BothLengths :
         BucketWords(compiler.recompilation, len)
           = BucketWords(compiler.compilation, len)
    /\ \A key \in BothKeys :
         EntryWords(compiler.recompilation, key[1], key[2])
           = EntryWords(compiler.compilation, key[1], key[2])

\* a dictionary was compiled again with two words of an entry swapped, and
\* the words have other ids than before
C15_Witness ==
  /\ compiler.phase = "recompiled"
  /\ compiler.reordered # compiler.dictionary
  /\ compiler.recompilation.words # compiler.compilation.words
  /\ compiler.recompilation.lengths # <<>>

\* a dictionary was compiled again as it was
C15_Again ==
  /\ compiler.phase = "recompiled"
  /\ compiler.reordered = compiler.dictionary
  /\ compiler.recompilation.lengths # <<>>

\* one generator state for every value a draw can have
DrawStates == { 64 * k : k \in 0..63 }

\* the lengths the placer can look for in the orientation
TriedLengths(horizontal) ==
  2..Min(IF horizontal = 1 THEN options.width ELSE options.height,
         Len(options.compilation.lengths) - 1)

\* the positions <<x, y>> the placer can try next on a grid for a word of
\* the orientation and length
TriedPositions(matrix, horizontal, length) ==
  { PositionX(matrix, horizontal, length, r) : r \in DrawStates }
    \X { PositionY(matrix, horizontal, length, r) : r \in DrawStates }

\* one coordinate is pinned to the edge of the grid: x for a vertical word,
\* y for a horizontal word
Pinned(horizontal, x, y) ==
  IF horizontal = 1
  THEN y \in {0, options.height - 1}
  ELSE x \in {0, options.width - 1}

C18_CrossingsCountedOnce ==
  \A matrix \in Grids :
    matrix.intersections = Cardinality(Crossings(matrix))

\* the cells <<x, y>> of a grid that hold a letter
LetterCells(matrix) ==
  { c \in (0..(options.width - 1)) \X (0..(options.height - 1)) :
      Occupied(matrix, c[1], c[2]) }

\* the pairs of cells of a grid that hold a letter and are neighbours in a
\* row or in a column
AdjacentLetters(matrix) ==
  { p \in LetterCells(matrix) \X LetterCells(matrix) :
      \/ p[2][1] = p[1][1] + 1 /\ p[2][2] = p[1][2]
      \/ p[2][1] = p[1][1] /\ p[2][2] = p[1][2] + 1 }

\* C19: in every grid reached by generate and calls of iterate and
\* fillEmptySpaces, two non-empty cells that are neighbours in a row or in a
\* column are both covered by one placement of the grid
C19_AdjacentCellsShareWord ==
  \A matrix \in Grids :
    \A p \in AdjacentLetters(matrix) :
      \E k \in 1..Len(matrix.questionsData) :
        {p[1], p[2]} \subseteq CellsOf(matrix.questionsData[k])

\* fillEmptySpaces has placed a word, and a grid has three words, two of
\* them of the same orientation, and letters in neighbouring cells
C19_Witness ==
  /\ lastCall = "fillEmptySpaces"
  /\ \E k \in 1..Len(fillInfo.passes) : fillInfo.passes[k] > 1
  /\ \E matrix \in Grids :
       /\ Len(matrix.questionsData) >= 3
       /\ Parallels(matrix) # {}
       /\ Crossings(matrix) # {}
       /\ AdjacentLetters(matrix) # {}

\* the rows of a grid are the rows 0 .. height - 1 of the cells
\* 0 .. width - 1: no cell was written beyond them
RowsInside(matrix) ==
  /\ DOMAIN matrix.rows = 0..(options.height - 1)
  /\ \A y \in DOMAIN matrix.rows :
       DOMAIN matrix.rows[y] = 0..(options.width - 1)

\* a placement lies inside the grid
Inside(question) ==
  /\ question.x >= 0
  /\ question.y >= 0
  /\ IF question.horizontal = 1
     THEN question.x + Len(question.word) <= options.width
     ELSE question.y + Len(question.word) <= options.height

\* C20: with a width and a height of 2 or more, every placement of every
\* grid reached by generate, iterate and fillEmptySpaces lies inside the
\* grid: x >= 0, y >= 0, and x + length <= width for a horizontal word or
\* y + length <= height for a vertical word; its letters are in the cells it
\* covers, and no cell exists outside the grid
C20_PlacementsInside ==
  (options.width >= 2 /\ options.height >= 2) =>
    \A matrix \in Grids :
      /\ RowsInside(matrix)
      /\ \A k \in 1..Len(matrix.questionsData) :
           /\ Inside(matrix.questionsData[k])
           /\ \A i \in Offsets(matrix.questionsData[k]) :
                IF Inside(matrix.questionsData[k])
                THEN matrix.rows[CellAt(matrix.questionsData[k], i)[2]]
                                [CellAt(matrix.questionsData[k], i)[1]][1]
                       = matrix.questionsData[k].word[i + 1]
                ELSE FALSE

\* the placer and fillEmptySpaces have put words that end in the last
\* column and in the last row of a grid
C20_Witness ==
  /\ lastCall = "fillEmptySpaces"
  /\ \E k \in 1..Len(fillInfo.passes) : fillInfo.passes[k] > 1
  /\ \E matrix \in Grids :
       /\ \E k \in 1..Len(matrix.questionsData) :
            /\ matrix.questionsData[k].horizontal = 1
            /\ matrix.questionsData[k].x
                 + Len(matrix.questionsData[k].word) = options.width
       /\ \E k \in 1..Len(matrix.questionsData) :
            /\ matrix.questionsData[k].horizontal = 0
            /\ matrix.questionsData[k].y
                 + Len(matrix.questionsData[k].word) = options.height

\* the step is one round of the while (true) of a placer call on a grid
\* that is not finished
RoundOfPlacer ==
  /\ placer.phase = "running"
  /\ placer'.phase = "running"
  /\ placer'.calls = placer.calls
  /\ placer' # placer
  /\ ~placer.s.matrix.finish

Appended ==
  Len(placer.s.matrix.questionsData) - Len(placer.before.questionsData)

\* the placements the grid had before the call are the first placements
\* of the grid now
PlacementsKept ==
  /\ Appended >= 0
  /\ SubSeq(placer.s.matrix.questionsData, 1,
            Len(placer.before.questionsData))
       = placer.before.questionsData

\* C22: a placer call on an unfinished grid makes at most 2 * finishAt
\* attempts and ends by returning, never by throwing, with exactly one of
\* two outcomes: one placement was appended, or no placement was appended
\* and the grid is marked finished
C22_BoundedOutcome ==
  (placer.phase = "running" /\ ~placer.before.finish
     /\ options.finishAt >= 1) =>
    /\ placer.attempts <= 2 * options.finishAt
    /\ ~placer.s.threw
    /\ PlacementsKept
    /\ placer.s.returned =>
         \/ Appended = 1 /\ ~placer.s.matrix.finish
         \/ Appended = 0 /\ placer.s.matrix.finish
                         /\ placer.s.matrix.rows = placer.before.rows
    /\ ~placer.s.returned => Appended = 0

\* the outcome of a placer call when the compilation has a word in a length
\* bucket, so that the bucket of every length drawn exists
BoundedOutcomeWithWords ==
  (placer.phase = "running" /\ options.compilation.lengths # <<>>) =>
    C22_BoundedOutcome

\* the candidates of the last call of iterate, numbered from 0
CandidateNumbers == 0..(Len(solutions) - 1)

\* the grid candidate i was cloned from: the grid of the population given
\* to iterate at index floor(matrices.length * i / solutionsPerIteration)
SourceOf(i) ==
  iterateInfo.before[((Len(iterateInfo.before) * i)
                        \div options.solutionsPerIteration) + 1]

\* C23: a candidate that iterate cloned from a finished grid comes back from
\* its placer calls finished, with exactly the placements and the cells of
\* its source; and a candidate cloned from a grid whose flag borde is true
\* has the flag true
C23_FinishedAbsorbing ==
  (lastCall = "iterate" /\ ~raised) =>
    \A i \in CandidateNumbers :
      /\ SourceOf(i).finish =>
           /\ solutions[i + 1].finish
           /\ solutions[i + 1].questionsData = SourceOf(i).questionsData
           /\ solutions[i + 1].questions = SourceOf(i).questions
           /\ solutions[i + 1].rows = SourceOf(i).rows
      /\ SourceOf(i).borde => solutions[i + 1].borde

\* iterate was called on a population with a finished grid that has a word
\* and whose flag borde is true
C23_Witness ==
  /\ lastCall = "iterate"
  /\ ~raised
  /\ \E i \in CandidateNumbers :
       /\ SourceOf(i).finish
       /\ SourceOf(i).borde
       /\ SourceOf(i).questionsData # <<>>

\* iterate was called on a population with an unfinished grid whose flag
\* borde is true
C23_BordeKept ==
  /\ lastCall = "iterate"
  /\ ~raised
  /\ \E i \in CandidateNumbers : SourceOf(i).borde /\ ~SourceOf(i).finish

\* the step is a round of a placer call in which a word is placed
PlacementByPlacer ==
  /\ RoundOfPlacer
  /\ placer'.s.placed
  /\ Len(placer'.s.matrix.questionsData)
       = Len(placer.s.matrix.questionsData) + 1

\* the placement appended by the step
NewPlacement ==
  placer'.s.matrix.questionsData[Len(placer'.s.matrix.questionsData)]

\* the grid is in border phase when the round makes its attempt: the flag
\* borde is true, or the counter reaches finishAt in this round and sets it
InBorderPhase ==
  \/ placer.s.matrix.borde
  \/ BorderWanted /\ placer.s.intento + 1 = options.finishAt

\* C27: with wordsOnBorder set, a placement that the placer appends to a
\* grid in border phase covers at least one cell that was non-empty before
\* the placement
C27_NoIsolatedInBorderPhase ==
  [][(PlacementByPlacer /\ BorderWanted /\ InBorderPhase) =>
       \E c \in CellsOf(NewPlacement) :
         Occupied(placer.s.matrix, c[1], c[2])]_vars

\* with wordsOnBorder set, a placer call has appended a word to a grid in
\* border phase
C27_Witness ==
  /\ placer.phase = "running"
  /\ BorderWanted
  /\ placer.before.borde
  /\ placer.s.placed
  /\ Appended = 1

\* the sum of the lengths of the words placed in a grid
LettersPlaced(matrix) ==
  Cardinality(UNION { {k} \X (1..Len(matrix.questionsData[k].word)) :
                        k \in 1..Len(matrix.questionsData) })

\* letters / (2 * (width + height)) > wordsOnBorder, the option being the
\* fraction wordsOnBorder[1] / wordsOnBorder[2]
CoverageAbove(letters) ==
  letters * options.wordsOnBorder[2]
    > options.wordsOnBorder[1] * (2 * (options.width + options.height))

\* the same with equality instead of the strict comparison
CoverageEqual(letters) ==
  letters * options.wordsOnBorder[2]
    = options.wordsOnBorder[1] * (2 * (options.width + options.height))

\* C28: with wordsOnBorder set, after a placement on a grid that was not in
\* border phase the flag borde is true iff the sum of the lengths of all
\* placed words divided by 2 * (width + height) is strictly greater than
\* wordsOnBorder; after a placement on a grid in border phase the flag is
\* true
C28_BorderThreshold ==
  [][(PlacementByPlacer /\ BorderWanted) =>
       IF InBorderPhase
       THEN placer'.s.matrix.borde
       ELSE placer'.s.matrix.borde
              <=> CoverageAbove(LettersPlaced(placer'.s.matrix))]_vars

\* with wordsOnBorder set, a placement has taken a grid into border phase,
\* the grid having more than one word
C28_Witness ==
  /\ placer.phase = "running"
  /\ BorderWanted
  /\ placer.s.placed
  /\ ~placer.before.borde
  /\ placer.s.matrix.borde
  /\ placer.s.intento < options.finishAt
  /\ placer.attempts < options.finishAt
  /\ Len(placer.s.matrix.questionsData) > 1
  /\ CoverageAbove(LettersPlaced(placer.s.matrix))

\* with wordsOnBorder set, a placement has left a grid out of border phase
C28_Below ==
  /\ placer.phase = "running"
  /\ BorderWanted
  /\ placer.s.placed
  /\ ~placer.s.matrix.borde
  /\ ~CoverageAbove(LettersPlaced(placer.s.matrix))

\* with wordsOnBorder set, a placement has left a grid out of border phase
\* with a coverage that is exactly wordsOnBorder
C28_AtThreshold ==
  /\ C28_Below
  /\ CoverageEqual(LettersPlaced(placer.s.matrix))

\* the word ids of the placements of a grid
PlacedIds(matrix) ==
  { matrix.questionsData[k].idx : k \in 1..Len(matrix.questionsData) }

\* C24: in every grid reached by generate, iterate and fillEmptySpaces, no
\* word id is the id of two placements, the set questions of the grid is
\* the set of the ids of its placements, and no id of this.ignored is the id
\* of a placement
C24_UsedIds ==
  \A matrix \in Grids :
    /\ \A j, k \in 1..Len(matrix.questionsData) :
         matrix.questionsData[j].idx = matrix.questionsData[k].idx => j = k
    /\ matrix.questions = PlacedIds(matrix)
    /\ PlacedIds(matrix) \cap ignored = {}

\* with an ignored id that is in a length bucket, fillEmptySpaces has
\* placed a word in a grid that has three words or more
C24_Witness ==
  /\ lastCall = "fillEmptySpaces"
  /\ \E k \in 1..Len(fillInfo.passes) : fillInfo.passes[k] > 1
  /\ \E id \in ignored :
       \E len \in 1..Len(options.compilation.lengths) :
         Includes(options.compilation.lengths[len], id)
  /\ \E matrix \in Grids : Len(matrix.questionsData) >= 3

\* the cells <<x, y>> of a grid
AllCells == (0..(options.width - 1)) \X (0..(options.height - 1))

\* the cells covered by the placements of a grid of the orientation
CoveredBy(matrix, horizontal) ==
  UNION { CellsOf(matrix.questionsData[k]) :
            k \in { j \in 1..Len(matrix.questionsData) :
                      matrix.questionsData[j].horizontal = horizontal } }

\* C29: in every grid reached by generate, iterate and fillEmptySpaces, a
\* cell is non-empty iff a placement covers it, its horizontal flag is true
\* iff a horizontal placement covers it and its vertical flag is true iff a
\* vertical placement covers it; and the fillingPercentage of a scored grid
\* is the number of cells covered by placements
C29_CellsAgreeWithPlacements ==
  \A matrix \in Grids :
    /\ \A c \in AllCells :
         /\ Occupied(matrix, c[1], c[2])
              <=> c \in CoveredBy(matrix, 0) \cup CoveredBy(matrix, 1)
         /\ matrix.rows[c[2]][c[1]][3] <=> c \in CoveredBy(matrix, 1)
         /\ matrix.rows[c[2]][c[1]][2] <=> c \in CoveredBy(matrix, 0)
    /\ (\/ matrix.questionsData = <<>>
        \/ lastCall \in {"iterate", "fillEmptySpaces"}) =>
         matrix.fillingPercentage
           = Cardinality(CoveredBy(matrix, 0) \cup CoveredBy(matrix, 1))

\* fillEmptySpaces has placed a word, and a scored grid has a cell covered
\* by a horizontal and a vertical placement
C29_Witness ==
  /\ lastCall = "fillEmptySpaces"
  /\ \E k \in 1..Len(fillInfo.passes) : fillInfo.passes[k] > 1
  /\ \E matrix \in Grids :
       /\ CoveredBy(matrix, 0) \cap CoveredBy(matrix, 1) # {}
       /\ matrix.fillingPercentage > 0
       /\ matrix.fillingPercentage
            < Cardinality(CoveredBy(matrix, 0))
                + Cardinality(CoveredBy(matrix, 1))

\* the grid grown is the grid source with at most wordsPerIteration
\* placements appended, and it has the letter of every non-empty cell of
\* source
GrownFrom(source, grown) ==
  /\ Len(source.questionsData) <= Len(grown.questionsData)
  /\ SubSeq(grown.questionsData, 1, Len(source.questionsData))
       = source.questionsData
  /\ Len(grown.questionsData) - Len(source.questionsData)
       <= options.wordsPerIteration
  /\ \A c \in AllCells :
       Occupied(source, c[1], c[2]) =>
         grown.rows[c[2]][c[1]][1] = source.rows[c[2]][c[1]][1]

\* C30: every grid that iterate returns is a candidate of the call, and the
\* grid of the population at index
\* floor(matrices.length * i / solutionsPerIteration), i being the number of
\* the candidate, has its placements as the first placements of the
\* candidate, at most wordsPerIteration fewer of them, and its letters in
\* the same cells
C30_AppendOnlyLineage ==
  (lastCall = "iterate" /\ ~raised) =>
    /\ Len(matrices) = Len(selected)
    /\ \A j \in 1..Len(matrices) :
         /\ selected[j] - 1 \in CandidateNumbers
         /\ matrices[j] = solutions[selected[j]]
         /\ GrownFrom(SourceOf(selected[j] - 1), matrices[j])

\* iterate has returned two grids grown from different grids of its
\* population, one of them with a word appended to the words of its source
C30_Witness ==
  /\ lastCall = "iterate"
  /\ ~raised
  /\ \E j, k \in 1..Len(matrices) :
       /\ SourceOf(selected[j] - 1) # SourceOf(selected[k] - 1)
       /\ SourceOf(selected[j] - 1).questionsData # <<>>
       /\ Len(matrices[j].questionsData)
            > Len(SourceOf(selected[j] - 1).questionsData)

\* the clues of the word id w of a compilation: the other words and the
\* phrases of the entry questions[w], none when the entry is undefined
CluesOf(compilation, w) ==
  IF w \in DOMAIN compilation.questions
  THEN { <<"word", id>> : id \in Members(compilation.questions[w][1]) \ {w} }
         \cup { <<"phrase", id>> :
                  id \in Members(compilation.questions[w][2]) }
  ELSE {}

\* C25: after compile, every word id that is in a length bucket has an
\* entry in questions, and the entry holds at least one word other than the
\* word itself or one phrase
C25_PlaceableWordsHaveClues ==
  compiler.phase = "compiled" =>
    \A len \in 0..Len(compiler.compilation.lengths) :
      \A w \in Bucket(compiler.compilation, len) :
        /\ w \in DOMAIN compiler.compilation.questions
        /\ CluesOf(compiler.compilation, w) # {}

\* the letters with an accent, upper and lower case
AccentedLetters ==
  { "Á", "É", "Í", "Ó", "Ú", "Ü", "á", "é", "í", "ó", "ú", "ü" }

\* C26: no cell of a grid the placer has written words into holds an
\* accented letter: the accented letters of a word accepted by the index
\* pattern are stored in their unaccented form
C26_NoAccentInCells ==
  placer.phase = "running" =>
    \A c \in AllCells :
      placer.s.matrix.rows[c[2]][c[1]][1] \notin AccentedLetters

=============================================================================
